---- MODULE Spec2Model ----
(***************************************************************************)
(* Model of the benchmark runner: the usePyodide hook (sandbox session and *)
(* output buffer), the App component's wave sequencer                      *)
(* (runBenchmarkSequence) and its leaderboard aggregator.                  *)
(*                                                                         *)
(* Execution model.  The browser runs one macrotask at a time (a click, a  *)
(* worker message, a timer); the promise continuations it makes runnable   *)
(* (variable jobs) run before the next macrotask, and React then commits   *)
(* the batched state updates and runs the effects (action Commit).  The    *)
(* async function runBenchmarkSequence is a process (an element of loops)  *)
(* suspended at one of its awaits; it reads the React state through the    *)
(* closure of the render that started it (the c* fields) and the refs      *)
(* through their current value.                                            *)
(***************************************************************************)
EXTENDS Integers, Sequences, FiniteSets, TLC

\* ---------------------------------------------------------------- bounds
MaxWave == 1        \* the cooldown timer fires only while wave < MaxWave
MaxToggles == 2     \* user actions per behaviour of Spec and SpecReset
MaxClicks == 3      \* user actions per behaviour of SpecUser (all handlers)
MaxMerges == 3      \* merges per behaviour of SpecMerge and SpecParse
MaxLines == 1       \* result lines the output buffer holds
MaxOutput == 2      \* lines of a run's output slice in SpecParse
MaxRows == 3        \* rows of the table in SpecRank
MaxFiles == 2       \* files of a RUN request in SpecWorker
MaxRuns == 1        \* runCode calls in SpecWorker
MaxEdits == 2       \* clicks in SpecEdit: play and the edits
MaxCalls == 3       \* direct calls of the hook per behaviour of SpecInstall

\* ------------------------------------------------------------- constants
NoResolver == 0      \* a resolver ref holding null
MountResolver == -1  \* resolve of the promise made by the mount effect (nobody awaits it)
NoError == ""        \* error absent (undefined)
NullWorker == "null"
LiveWorker == "worker"

Names == {"A - algo", "B - algo"}

\* user inputs: the proposal list and the dependency list
ProposalLists ==
  { << [id |-> "p1", name |-> "A - algo", active |-> TRUE],
       [id |-> "p2", name |-> "B - algo", active |-> TRUE] >>,
    << [id |-> "p1", name |-> "A - algo", active |-> FALSE],
       [id |-> "p2", name |-> "B - algo", active |-> TRUE] >>,
    << >> }
UserProposalLists ==
  { << [id |-> "p1", name |-> "A - algo", active |-> TRUE] >> }
DependencyLists == { <<>>, <<"numpy">> }

\* a file of a RUN request
File(name, content) == [name |-> name, content |-> content]

\* DEFAULT_FILES; their content is fixed
DefaultFiles ==
  << File("main.py", ""), File("benchmark.py", ""), File("models.py", ""),
     File("algorithms.py", ""), File("verification.py", "") >>

\* ---------------------------------------------------------------- output
\* The output buffer is a sequence of lines; a line is a record: tag is what
\* the line begins with, json tells whether what follows the tag parses as
\* JSON, res is the parsed value.
Line(tag) == [tag |-> tag, json |-> FALSE,
              res |-> [name |-> "", verified |-> FALSE, score |-> 0,
                       batches |-> 0, time |-> 0, error |-> NoError]]
SentinelLine(r) == [tag |-> "__BENCHMARK_STEP__:", json |-> TRUE, res |-> r]
\* a line with the prefix followed by text JSON.parse throws on
MalformedLine == Line("__BENCHMARK_STEP__:")

\* what a sandboxed run may print as a result line
SandboxResults ==
  { [name |-> n, verified |-> v, score |-> (IF v THEN 2 ELSE 0), batches |-> 1,
     time |-> 1, error |-> (IF v THEN NoError ELSE "VerificationError")]
    : n \in Names, v \in BOOLEAN }

FailureResult(fullName, err, t) ==
  [name |-> fullName, verified |-> FALSE, score |-> 0, batches |-> 0, time |-> t, error |-> err]

TimeoutSecs == 5

\* ----------------------------------------------------------- leaderboard
FindIndex(lb, nm) ==
  IF \E i \in 1..Len(lb) : lb[i].name = nm
  THEN CHOOSE i \in 1..Len(lb) : lb[i].name = nm /\ \A j \in 1..(i-1) : lb[j].name # nm
  ELSE 0

NewEntry(result, waveIndex) ==
  [name |-> result.name, batches |-> result.batches, score |-> result.score,
   time |-> result.time, verified |-> result.verified,
   completedWaves |-> (IF result.verified THEN 1 ELSE 0),
   lastVerifiedWave |-> waveIndex, error |-> result.error]

\* faulty variant: the entry takes the verified flag of the last result
updateLeaderboardLastVerified(prevLeaderboard, result, waveIndex) ==
  LET existingIndex == FindIndex(prevLeaderboard, result.name) IN
  IF existingIndex > 0
  THEN LET existing == prevLeaderboard[existingIndex] IN
       IF existing.lastVerifiedWave = waveIndex
       THEN prevLeaderboard
       ELSE [prevLeaderboard EXCEPT ![existingIndex] =
              [existing EXCEPT
                 !.batches = existing.batches + result.batches,
                 !.score = existing.score + result.score,
                 !.time = existing.time + result.time,
                 !.verified = result.verified,
                 !.completedWaves = existing.completedWaves + (IF result.verified THEN 1 ELSE 0),
                 !.lastVerifiedWave = waveIndex,
                 !.error = IF result.error # NoError THEN result.error ELSE existing.error]]
  ELSE Append(prevLeaderboard, NewEntry(result, waveIndex))

\* faulty variant: the error of the entry is replaced by that of the result
\* also when the result carries none
updateLeaderboardErrorReplaced(prevLeaderboard, result, waveIndex) ==
  LET existingIndex == FindIndex(prevLeaderboard, result.name) IN
  IF existingIndex > 0
  THEN LET existing == prevLeaderboard[existingIndex] IN
       IF existing.lastVerifiedWave = waveIndex
       THEN prevLeaderboard
       ELSE [prevLeaderboard EXCEPT ![existingIndex] =
              [existing EXCEPT
                 !.batches = existing.batches + result.batches,
                 !.score = existing.score + result.score,
                 !.time = existing.time + result.time,
                 !.verified = existing.verified /\ result.verified,
                 !.completedWaves = existing.completedWaves + (IF result.verified THEN 1 ELSE 0),
                 !.lastVerifiedWave = waveIndex,
                 !.error = result.error]]
  ELSE Append(prevLeaderboard, NewEntry(result, waveIndex))

\* faulty variant: the merge without the lastVerifiedWave guard of lines 797-800
updateLeaderboardUnguarded(prevLeaderboard, result, waveIndex) ==
  LET existingIndex == FindIndex(prevLeaderboard, result.name) IN
  IF existingIndex > 0
  THEN LET existing == prevLeaderboard[existingIndex] IN
       [prevLeaderboard EXCEPT ![existingIndex] =
          [existing EXCEPT
             !.batches = existing.batches + result.batches,
             !.score = existing.score + result.score,
             !.time = existing.time + result.time,
             !.verified = existing.verified /\ result.verified,
             !.completedWaves = existing.completedWaves + (IF result.verified THEN 1 ELSE 0),
             !.lastVerifiedWave = waveIndex,
             !.error = IF result.error # NoError THEN result.error ELSE existing.error]]
  ELSE Append(prevLeaderboard, NewEntry(result, waveIndex))

updateLeaderboard(prevLeaderboard, result, waveIndex) ==
  LET existingIndex == FindIndex(prevLeaderboard, result.name) IN
  IF existingIndex > 0
  THEN LET existing == prevLeaderboard[existingIndex] IN
       IF existing.lastVerifiedWave = waveIndex
       THEN prevLeaderboard
       ELSE [prevLeaderboard EXCEPT ![existingIndex] =
              [existing EXCEPT
                 !.batches = existing.batches + result.batches,
                 !.score = existing.score + result.score,
                 !.time = existing.time + result.time,
                 !.verified = existing.verified /\ result.verified,
                 !.completedWaves = existing.completedWaves + (IF result.verified THEN 1 ELSE 0),
                 !.lastVerifiedWave = waveIndex,
                 !.error = IF result.error # NoError THEN result.error ELSE existing.error]]
  ELSE Append(prevLeaderboard, NewEntry(result, waveIndex))

\* faulty variant: the placeholder is pushed without the check of line 903
insertPlaceholderUnchecked(prev, fullName) ==
  Append(prev, [name |-> fullName, batches |-> 0, score |-> 0, time |-> 0,
                verified |-> TRUE, completedWaves |-> 0,
                lastVerifiedWave |-> -1, error |-> NoError])

\* the optimistic placeholder inserted before a run
insertPlaceholder(prev, fullName) ==
  IF \E i \in 1..Len(prev) : prev[i].name = fullName
  THEN prev
  ELSE Append(prev, [name |-> fullName, batches |-> 0, score |-> 0, time |-> 0,
                     verified |-> TRUE, completedWaves |-> 0,
                     lastVerifiedWave |-> -1, error |-> NoError])

\* ----------------------------------------------------------------- state
VARIABLES
  \* usePyodide: React state
  isReady, isLoading, isExecuting, isInstalling,
  \* usePyodide: refs
  fullOutputRef, workerRef, runResolveRef, readyResolveRef, installResolveRef,
  installedPackagesRef,
  \* App: React state and ref
  proposals, dependencies, isPlaying, isWaveRunning, wave, leaderboard, status,
  isPlayingRef,
  \* RankingTable: React state
  sortField, sortAsc, timeoutSecs,
  \* the sandbox worker behind workerRef
  worker,
  \* runtime: suspended runBenchmarkSequence calls, runnable continuations,
  \* the dependency values of the last commit, user actions left
  loops, jobs, effectDeps, budget

vars == << isReady, isLoading, isExecuting, isInstalling, fullOutputRef, workerRef,
           runResolveRef, readyResolveRef, installResolveRef, installedPackagesRef,
           proposals, dependencies, isPlaying, isWaveRunning, wave, leaderboard, status,
           isPlayingRef, sortField, sortAsc, timeoutSecs, worker, loops, jobs, effectDeps, budget >>

\* the whole state as one record, so that the handlers are functions on it
State ==
  [isReady |-> isReady, isLoading |-> isLoading, isExecuting |-> isExecuting,
   isInstalling |-> isInstalling, fullOutputRef |-> fullOutputRef, workerRef |-> workerRef,
   runResolveRef |-> runResolveRef, readyResolveRef |-> readyResolveRef,
   installResolveRef |-> installResolveRef, installedPackagesRef |-> installedPackagesRef,
   proposals |-> proposals, dependencies |-> dependencies, isPlaying |-> isPlaying,
   isWaveRunning |-> isWaveRunning, wave |-> wave, leaderboard |-> leaderboard,
   status |-> status, isPlayingRef |-> isPlayingRef, worker |-> worker, loops |-> loops,
   jobs |-> jobs, effectDeps |-> effectDeps, budget |-> budget,
   sortField |-> sortField, sortAsc |-> sortAsc, timeoutSecs |-> timeoutSecs]

Becomes(S) ==
  /\ isReady' = S.isReady /\ isLoading' = S.isLoading /\ isExecuting' = S.isExecuting
  /\ isInstalling' = S.isInstalling /\ fullOutputRef' = S.fullOutputRef
  /\ workerRef' = S.workerRef /\ runResolveRef' = S.runResolveRef
  /\ readyResolveRef' = S.readyResolveRef /\ installResolveRef' = S.installResolveRef
  /\ installedPackagesRef' = S.installedPackagesRef
  /\ proposals' = S.proposals /\ dependencies' = S.dependencies /\ isPlaying' = S.isPlaying
  /\ isWaveRunning' = S.isWaveRunning /\ wave' = S.wave /\ leaderboard' = S.leaderboard
  /\ status' = S.status /\ isPlayingRef' = S.isPlayingRef /\ worker' = S.worker
  /\ loops' = S.loops /\ jobs' = S.jobs /\ effectDeps' = S.effectDeps /\ budget' = S.budget
  /\ sortField' = S.sortField /\ sortAsc' = S.sortAsc /\ timeoutSecs' = S.timeoutSecs

\* --------------------------------------------------------------- promises
\* A resolver ref holds NoResolver, MountResolver or the index in loops of
\* the runBenchmarkSequence call that awaits the promise.  A promise settles
\* once: resolving it makes the awaiting call runnable only if that call is
\* still suspended on it (for the run promise: the race is not yet settled).
IsAwaiting(S, l, pc) ==
  /\ l \in 1..Len(S.loops)
  /\ S.loops[l].pc = pc
  /\ \A k \in 1..Len(S.jobs) : S.jobs[k].l # l

Resolve(S, l, pc, v) ==
  IF IsAwaiting(S, l, pc) THEN [S EXCEPT !.jobs = Append(S.jobs, [l |-> l, v |-> v])] ELSE S

\* ------------------------------------------------------------- usePyodide
DeadWorker ==
  [alive |-> FALSE, init |-> "error", pyodide |-> FALSE, queue |-> <<>>, lines |-> 0, done |-> <<>>,
   orphans |-> 0]
\* new Worker(...) followed by postMessage INIT; orphans counts the workers
\* that were created before it and never terminated
FreshWorker ==
  [alive |-> TRUE, init |-> "loading", pyodide |-> FALSE, queue |-> <<>>, lines |-> 0, done |-> <<>>,
   orphans |-> 0]

postMessage(S, msg) ==
  [S EXCEPT !.worker.queue = Append(S.worker.queue, msg)]

\* faulty variant: terminateWorker without the resolution of the pending run
\* promise (lines 151-155)
terminateWorkerRunPending(S) ==
  [S EXCEPT !.worker = IF S.workerRef # NullWorker
                       THEN [DeadWorker EXCEPT !.orphans = S.worker.orphans]
                       ELSE S.worker,
            !.workerRef = NullWorker,
            !.isReady = FALSE, !.isExecuting = FALSE, !.isInstalling = FALSE]

terminateWorker(S) ==
  LET S1 == [S EXCEPT !.worker = IF S.workerRef # NullWorker
                                 THEN [DeadWorker EXCEPT !.orphans = S.worker.orphans]
                                 ELSE S.worker,
                      !.workerRef = NullWorker,
                      !.isReady = FALSE, !.isExecuting = FALSE, !.isInstalling = FALSE]
  IN IF S1.runResolveRef # NoResolver
     THEN Resolve([S1 EXCEPT !.runResolveRef = NoResolver], S1.runResolveRef, "race", FALSE)
     ELSE S1

\* faulty variant: initPyodide without workerRef.current = worker (line 247)
initPyodideUnkept(S, resolve) ==
  LET S1 == terminateWorker(S) IN
  [S1 EXCEPT !.isLoading = TRUE,
             !.readyResolveRef = resolve,
             !.installedPackagesRef = {},
             !.fullOutputRef = <<>>,
             !.worker = FreshWorker]

\* faulty variant: initPyodide without installedPackagesRef.current = new Set()
\* (line 167)
initPyodideKeepsInstalled(S, resolve) ==
  LET S1 == terminateWorker(S) IN
  [S1 EXCEPT !.isLoading = TRUE,
             !.readyResolveRef = resolve,
             !.fullOutputRef = <<>>,
             !.worker = FreshWorker,
             !.workerRef = LiveWorker]

\* new Worker(workerUrl) in session S: a worker of S that is not terminated
\* lives on beside the new one
NewWorker(S) ==
  [FreshWorker EXCEPT !.orphans = S.worker.orphans + (IF S.worker.alive THEN 1 ELSE 0)]

\* faulty variant: initPyodide without terminateWorker() (line 161)
initPyodideNoTerminate(S, resolve) ==
  [S EXCEPT !.isLoading = TRUE,
            !.readyResolveRef = resolve,
            !.installedPackagesRef = {},
            !.fullOutputRef = <<>>,
            !.worker = NewWorker(S),
            !.workerRef = LiveWorker]

\* resolve is the resolver of the promise initPyodide returns
initPyodide(S, resolve) ==
  LET S1 == terminateWorker(S) IN
  [S1 EXCEPT !.isLoading = TRUE,
             !.readyResolveRef = resolve,
             !.installedPackagesRef = {},
             !.fullOutputRef = <<>>,
             !.worker = NewWorker(S1),
             !.workerRef = LiveWorker]

\* cIsExecuting, cIsInstalling: the state values the calling closure holds
stopExecution(S, cIsExecuting, cIsInstalling) ==
  IF cIsExecuting \/ cIsInstalling
  THEN terminateWorker([S EXCEPT !.fullOutputRef = Append(S.fullOutputRef, Line("[SYSTEM] Execution stopped."))])
  ELSE S

restartWorker(S, resolve, cIsExecuting, cIsInstalling) ==
  initPyodide(stopExecution(S, cIsExecuting, cIsInstalling), resolve)

SeqToSet(s) == { s[i] : i \in 1..Len(s) }

\* faulty variant: installPackages without the filter of line 274
installPackagesUnfiltered(S, l, pc, packages, cIsReady) ==
  IF S.workerRef = NullWorker \/ ~cIsReady
  THEN Resolve(S, l, pc, TRUE)
  ELSE IF Len(packages) = 0
  THEN Resolve(S, l, pc, TRUE)
  ELSE postMessage([S EXCEPT !.isInstalling = TRUE,
                             !.installResolveRef = l,
                             !.fullOutputRef = Append(S.fullOutputRef, Line("> Installing packages"))],
                   [type |-> "INSTALL", packages |-> packages, files |-> <<>>, l |-> l])

\* l awaits the returned promise at await point pc; cIsReady is the closure's isReady
installPackages(S, l, pc, packages, cIsReady) ==
  LET newPackages == SelectSeq(packages, LAMBDA p : p \notin S.installedPackagesRef) IN
  IF S.workerRef = NullWorker \/ ~cIsReady
  THEN Resolve(S, l, pc, TRUE)
  ELSE IF Len(newPackages) = 0
  THEN Resolve(S, l, pc, TRUE)
  ELSE postMessage([S EXCEPT !.isInstalling = TRUE,
                             !.installResolveRef = l,
                             !.fullOutputRef = Append(S.fullOutputRef, Line("> Installing packages"))],
                   [type |-> "INSTALL", packages |-> newPackages, files |-> <<>>, l |-> l])

\* runCode of the hook; resolve is the resolver of the promise it returns
runFiles(S, resolve, files, cIsReady) ==
  IF S.workerRef = NullWorker \/ ~cIsReady
  THEN Resolve(S, resolve, "race", FALSE)
  ELSE postMessage([S EXCEPT !.isExecuting = TRUE,
                             !.fullOutputRef = Append(S.fullOutputRef, Line("> Executing code...")),
                             !.runResolveRef = resolve],
                   [type |-> "RUN", packages |-> <<>>, files |-> files, l |-> resolve])

\* runCode called by runBenchmarkSequence call l, which awaits the promise
\* in its race
runCode(S, l, files, cIsReady) ==
  runFiles([S EXCEPT !.loops[l].sent = (S.workerRef # NullWorker /\ cIsReady)],
           l, files, cIsReady)

clearOutput(S) == [S EXCEPT !.fullOutputRef = <<>>]

appendOutput(S, text) == [S EXCEPT !.fullOutputRef = Append(S.fullOutputRef, text)]

\* worker.onmessage, by message type
onReady(S) ==
  LET S1 == [S EXCEPT !.isReady = TRUE, !.isLoading = FALSE] IN
  IF S1.readyResolveRef # NoResolver
  THEN Resolve([S1 EXCEPT !.readyResolveRef = NoResolver], S1.readyResolveRef, "ready", TRUE)
  ELSE S1

onOutput(S, text) == [S EXCEPT !.fullOutputRef = Append(S.fullOutputRef, text)]

\* faulty variant: ERROR handled as READY is (lines 186-192)
onErrorReady(S) ==
  onReady([S EXCEPT !.fullOutputRef = Append(S.fullOutputRef, Line("[SYSTEM ERROR]"))])

onError(S) ==
  [S EXCEPT !.fullOutputRef = Append(S.fullOutputRef, Line("[SYSTEM ERROR]")),
            !.isLoading = FALSE]

ResolveInstall(S) ==
  IF S.installResolveRef # NoResolver
  THEN LET l == S.installResolveRef
           S1 == [S EXCEPT !.installResolveRef = NoResolver]
       IN IF IsAwaiting(S1, l, "install") THEN Resolve(S1, l, "install", TRUE)
          ELSE Resolve(S1, l, "reinstall", TRUE)
  ELSE S

onInstalled(S, packages) ==
  ResolveInstall([S EXCEPT !.isInstalling = FALSE,
                           !.installedPackagesRef = S.installedPackagesRef \cup SeqToSet(packages),
                           !.fullOutputRef = Append(S.fullOutputRef, Line("> Installation complete."))])

\* faulty variant: INSTALL_ERROR without the resolve of lines 223-226
onInstallErrorPending(S) ==
  [S EXCEPT !.isInstalling = FALSE,
            !.fullOutputRef = Append(S.fullOutputRef, Line("[ERROR] Package installation failed"))]

onInstallError(S) ==
  ResolveInstall([S EXCEPT !.isInstalling = FALSE,
                           !.fullOutputRef = Append(S.fullOutputRef, Line("[ERROR] Package installation failed"))])

onDone(S, success) ==
  LET S1 == [S EXCEPT !.isExecuting = FALSE] IN
  IF S1.runResolveRef # NoResolver
  THEN Resolve([S1 EXCEPT !.runResolveRef = NoResolver], S1.runResolveRef, "race", success)
  ELSE S1

\* worker.onerror
onWorkerErrorEvent(S) ==
  [S EXCEPT !.fullOutputRef = Append(S.fullOutputRef, Line("[WORKER FATAL ERROR] Terminated.")),
            !.isLoading = FALSE,
            !.isExecuting = FALSE]

\* -------------------------------------------------- runBenchmarkSequence
\* A call of runBenchmarkSequence.  pc is the await it is suspended at:
\*   "install"   await installPackages(pkgs) before the loop
\*   "race"      await Promise.race([runPromise, timeoutPromise])
\*   "ready"     await restartWorker()
\*   "reinstall" await installPackages(pkgs) after a restart
\*   "cooldown"  await the 3 s timer
\*   "done"      returned
\* i is the index of the current proposal in the snapshot activeProposals;
\* the c* fields are the values of the closure; cls is the classification of
\* the last run this call classified; sent tells whether its last runCode
\* call posted a RUN request.
DoneLoop ==
  [pc |-> "done", i |-> 0, activeProposals |-> <<>>, pkgs |-> <<>>, currentWaveSeed |-> 0,
   cLeaderboard |-> <<>>, cIsReady |-> FALSE, cIsExecuting |-> FALSE, cIsInstalling |-> FALSE,
   cTimeoutSecs |-> 0,
   startOutputLength |-> 0, timedOut |-> FALSE, cls |-> "none", sent |-> FALSE,
   timers |-> {}, reset |-> FALSE]

RECURSIVE Trim(_)
Trim(ls) == IF Len(ls) > 0 /\ ls[Len(ls)].pc = "done" THEN Trim(SubSeq(ls, 1, Len(ls) - 1)) ELSE ls

Return(S, l) == [S EXCEPT !.loops = Trim([S.loops EXCEPT ![l] = DoneLoop])]

FreeSlot(ls) ==
  IF \E k \in 1..Len(ls) : ls[k].pc = "done"
  THEN CHOOSE k \in 1..Len(ls) : ls[k].pc = "done" /\ \A j \in 1..(k-1) : ls[j].pc # "done"
  ELSE Len(ls) + 1

\* the content of params.json is the seed and the timeout
FilesToRun(proposal, seed, timeout) ==
  DefaultFiles \o << File("user_algo_" \o proposal.id \o ".py", proposal.id),
                     File("config.json", proposal.id),
                     File("params.json", ToString(seed) \o "/" \o ToString(timeout)) >>

\* faulty variant: the round completes without the check of line 1037
AfterLoopUnchecked(S, l) ==
  [appendOutput(S, Line(">>> ROUND COMPLETE")) EXCEPT !.loops[l].pc = "cooldown"]

\* lines 1037-1049: after the for loop
AfterLoop(S, l) ==
  IF S.isPlayingRef
  THEN [appendOutput(S, Line(">>> ROUND COMPLETE")) EXCEPT !.loops[l].pc = "cooldown"]
  ELSE Return([S EXCEPT !.status = "IDLE", !.isWaveRunning = FALSE], l)

\* faulty variant: the for loop without the check of line 888
RECURSIVE ForLoopUnpaused(_, _, _)
ForLoopUnpaused(S, l, i) ==
  LET L == S.loops[l] IN
  IF i > Len(L.activeProposals) THEN AfterLoop(S, l)
  ELSE LET proposal == L.activeProposals[i]
           fullName == proposal.name
           existing == FindIndex(L.cLeaderboard, fullName)
       IN IF existing > 0 /\ ~L.cLeaderboard[existing].verified
          THEN ForLoopUnpaused(S, l, i + 1)
          ELSE LET S1 == [S EXCEPT !.leaderboard = insertPlaceholder(S.leaderboard, fullName),
                                   !.loops[l].i = i,
                                   !.loops[l].pc = "race",
                                   !.loops[l].timedOut = FALSE,
                                   !.loops[l].timers = L.timers \cup {i},
                                   !.loops[l].startOutputLength = Len(S.fullOutputRef)]
               IN runCode(S1, l, FilesToRun(proposal, L.currentWaveSeed, L.cTimeoutSecs), L.cIsReady)

\* faulty variant: a skipped proposal is recorded as a failure of the round
RECURSIVE ForLoopSkipRecorded(_, _, _)
ForLoopSkipRecorded(S, l, i) ==
  LET L == S.loops[l] IN
  IF i > Len(L.activeProposals) THEN AfterLoop(S, l)
  ELSE IF ~S.isPlayingRef THEN AfterLoop(S, l)
  ELSE LET proposal == L.activeProposals[i]
           fullName == proposal.name
           existing == FindIndex(L.cLeaderboard, fullName)
       IN IF existing > 0 /\ ~L.cLeaderboard[existing].verified
          THEN ForLoopSkipRecorded(
                 [S EXCEPT !.leaderboard =
                    updateLeaderboard(S.leaderboard, FailureResult(fullName, "Disqualified", 0),
                                      L.currentWaveSeed)], l, i + 1)
          ELSE LET S1 == [S EXCEPT !.leaderboard = insertPlaceholder(S.leaderboard, fullName),
                                   !.loops[l].i = i,
                                   !.loops[l].pc = "race",
                                   !.loops[l].timedOut = FALSE,
                                   !.loops[l].timers = L.timers \cup {i},
                                   !.loops[l].startOutputLength = Len(S.fullOutputRef)]
               IN runCode(S1, l, FilesToRun(proposal, L.currentWaveSeed, L.cTimeoutSecs), L.cIsReady)

\* faulty variant: the for loop goes over the active proposals of the
\* current list
roundProposalsLive(S, l) == SelectSeq(S.proposals, LAMBDA p : p.active)

\* line 887: activeProposals, the constant of line 875 of call l
roundProposals(S, l) == S.loops[l].activeProposals

\* lines 887-957: the for loop from the proposal at index i up to its next await
RECURSIVE ForLoop(_, _, _)
ForLoop(S, l, i) ==
  LET L == S.loops[l] IN
  IF i > Len(roundProposals(S, l)) THEN AfterLoop(S, l)
  ELSE IF ~S.isPlayingRef THEN AfterLoop(S, l)
  ELSE LET proposal == roundProposals(S, l)[i]
           fullName == proposal.name
           existing == FindIndex(L.cLeaderboard, fullName)
       IN IF existing > 0 /\ ~L.cLeaderboard[existing].verified
          THEN ForLoop(S, l, i + 1)
          ELSE LET S1 == [S EXCEPT !.leaderboard = insertPlaceholder(S.leaderboard, fullName),
                                   !.loops[l].i = i,
                                   !.loops[l].pc = "race",
                                   !.loops[l].timedOut = FALSE,
                                   !.loops[l].timers = L.timers \cup {i},
                                   !.loops[l].startOutputLength = Len(S.fullOutputRef)]
               IN runCode(S1, l, FilesToRun(proposal, L.currentWaveSeed, L.cTimeoutSecs), L.cIsReady)

\* lines 871-885: the call up to its first await
runBenchmarkSequence(S) ==
  LET l == FreeSlot(S.loops)
      activeProposals == SelectSeq(S.proposals, LAMBDA p : p.active)
      pkgs == S.dependencies
      new == [pc |-> "install", i |-> 0, activeProposals |-> activeProposals, pkgs |-> pkgs,
              currentWaveSeed |-> S.wave, cLeaderboard |-> S.leaderboard,
              cIsReady |-> S.isReady, cIsExecuting |-> S.isExecuting,
              cIsInstalling |-> S.isInstalling, cTimeoutSecs |-> S.timeoutSecs,
              startOutputLength |-> 0, timedOut |-> FALSE, cls |-> "none", sent |-> FALSE,
   timers |-> {}, reset |-> FALSE]
      S1 == [S EXCEPT !.isWaveRunning = TRUE,
                      !.status = "RUNNING",
                      !.loops = IF l > Len(S.loops) THEN Append(S.loops, new)
                                ELSE [S.loops EXCEPT ![l] = new],
                      !.fullOutputRef = Append(S.fullOutputRef, Line("STARTING ROUND"))]
  IN IF Len(pkgs) > 0
     THEN installPackages(S1, l, "install", pkgs, S1.loops[l].cIsReady)
     ELSE ForLoop(S1, l, 1)

\* the first line of a run's output slice that carries a result
RunOutput(S, l) ==
  LET start == S.loops[l].startOutputLength IN
  IF start >= Len(S.fullOutputRef) THEN <<>>
  ELSE SubSeq(S.fullOutputRef, start + 1, Len(S.fullOutputRef))

\* lines 1002-1015: the line the scan breaks at, the first line with the
\* prefix that JSON.parse accepts (a line it throws on is skipped); 0 if none
Parsed(line) == line.tag = "__BENCHMARK_STEP__:" /\ line.json

FirstSentinel(lines) ==
  IF \E k \in 1..Len(lines) : Parsed(lines[k])
  THEN CHOOSE k \in 1..Len(lines) :
         /\ Parsed(lines[k])
         /\ \A j \in 1..(k-1) : ~Parsed(lines[j])
  ELSE 0

\* faulty variant: a clean run without a result line is not merged
ParseRunOutputNoFailure(lb, lines, fullName, waveIndex) ==
  LET k == FirstSentinel(lines) IN
  IF k > 0 THEN updateLeaderboard(lb, lines[k].res, waveIndex) ELSE lb

\* lines 997-1031: the leaderboard after the parse of the output of a clean run
ParseRunOutput(lb, lines, fullName, waveIndex) ==
  LET k == FirstSentinel(lines) IN
  IF k > 0
  THEN updateLeaderboard(lb, lines[k].res, waveIndex)
  ELSE updateLeaderboard(lb, FailureResult(fullName, "Output Parsing Failed", 0), waveIndex)

\* lines 962-996: the two failure paths
Recover(S, l, err, t) ==
  LET L == S.loops[l]
      fullName == L.activeProposals[L.i].name
      S1 == [S EXCEPT !.leaderboard = updateLeaderboard(S.leaderboard, FailureResult(fullName, err, t),
                                                        L.currentWaveSeed),
                      !.loops[l].cls = err,
                      !.loops[l].pc = "ready"]
  IN restartWorker(S1, l, L.cIsExecuting, L.cIsInstalling)

\* faulty variant: a clean run without a result line restarts the session too
ClassifyRestartOnParseFailure(S, l, success) ==
  LET L == S.loops[l]
      fullName == L.activeProposals[L.i].name
      lines == RunOutput(S, l)
  IN IF L.timedOut THEN Recover(S, l, "Timeout", L.cTimeoutSecs)
     ELSE IF ~success THEN Recover(S, l, "Runtime Error", 0)
     ELSE IF FirstSentinel(lines) = 0 THEN Recover(S, l, "Output Parsing Failed", 0)
     ELSE ForLoop([S EXCEPT !.leaderboard = ParseRunOutput(S.leaderboard, lines, fullName,
                                                           L.currentWaveSeed),
                            !.loops[l].cls = "ok"], l, L.i + 1)

\* lines 957-1035: the continuation of the race; success is its value
Classify(S, l, success) ==
  LET L == S.loops[l]
      fullName == L.activeProposals[L.i].name
  IN IF L.timedOut THEN Recover(S, l, "Timeout", L.cTimeoutSecs)
     ELSE IF ~success THEN Recover(S, l, "Runtime Error", 0)
     ELSE LET lines == RunOutput(S, l)
              S1 == [S EXCEPT !.leaderboard = ParseRunOutput(S.leaderboard, lines, fullName,
                                                             L.currentWaveSeed),
                              !.loops[l].cls = IF FirstSentinel(lines) > 0
                                               THEN "ok" ELSE "Output Parsing Failed"]
          IN ForLoop(S1, l, L.i + 1)

\* faulty variant: after the restart, on to the next proposal without the
\* reinstall of lines 978 and 996
AfterRestartNoInstall(S, l) ==
  ForLoop(S, l, S.loops[l].i + 1)

\* lines 977-978, 995-996: after await restartWorker()
AfterRestart(S, l) ==
  LET L == S.loops[l] IN
  IF Len(L.pkgs) > 0
  THEN installPackages([S EXCEPT !.loops[l].pc = "reinstall"], l, "reinstall", L.pkgs, L.cIsReady)
  ELSE ForLoop(S, l, L.i + 1)

\* faulty variant: the round ends without setWave(w => w + 1) (line 1043)
AfterCooldownSameWave(S, l) ==
  Return([S EXCEPT !.isWaveRunning = FALSE], l)

\* lines 1043-1049: after the cooldown
\* faulty variant: the round counter is incremented only if play is still on
AfterCooldownIfPlaying(S, l) ==
  Return([S EXCEPT !.wave = IF S.isPlayingRef THEN S.wave + 1 ELSE S.wave,
                   !.isWaveRunning = FALSE], l)

AfterCooldown(S, l) ==
  Return([S EXCEPT !.wave = S.wave + 1, !.isWaveRunning = FALSE], l)

\* faulty variant: the race is left without clearTimeout (line 958)
clearTimeoutSkipped(S, l) == S

\* line 958: if (timerId) clearTimeout(timerId), for the timer of the current
\* proposal
clearTimeout(S, l) ==
  [S EXCEPT !.loops[l].timers = S.loops[l].timers \ {S.loops[l].i}]

\* the continuation of call l at its await, the awaited promise having value v
Continue(S, l, v) ==
  LET pc == S.loops[l].pc IN
  CASE pc = "install" -> ForLoop(S, l, 1)
    [] pc = "race" -> Classify(clearTimeout(S, l), l, v)
    [] pc = "ready" -> AfterRestart(S, l)
    [] pc = "reinstall" -> ForLoop(S, l, S.loops[l].i + 1)
    [] pc = "cooldown" -> AfterCooldown(S, l)

\* ------------------------------------------------------------------ Init
\* The state after the first render and its mount effect, which calls
\* initPyodide(); the proposal and dependency lists are the user's input.
InitWith(proposalLists, clicks) ==
  /\ proposals \in proposalLists
  /\ dependencies \in DependencyLists
  /\ isReady = FALSE /\ isLoading = TRUE /\ isExecuting = FALSE /\ isInstalling = FALSE
  /\ fullOutputRef = <<>>
  /\ workerRef = LiveWorker /\ worker = FreshWorker
  /\ runResolveRef = NoResolver /\ readyResolveRef = MountResolver
  /\ installResolveRef = NoResolver
  /\ installedPackagesRef = {}
  /\ isPlaying = FALSE /\ isWaveRunning = FALSE /\ wave = 0 /\ leaderboard = <<>>
  /\ status = "IDLE" /\ isPlayingRef = FALSE
  /\ sortField = "score" /\ sortAsc = TRUE /\ timeoutSecs = TimeoutSecs
  /\ loops = <<>> /\ jobs = <<>>
  /\ effectDeps = << FALSE, FALSE, FALSE >>
  /\ budget = clicks

Init == InitWith(ProposalLists, MaxToggles)
InitUser == InitWith(UserProposalLists, MaxClicks)

\* ------------------------------------------------------- React and the jobs
Deps(S) == << S.isPlaying, S.isWaveRunning, S.isReady >>

\* no continuation is runnable and the last state update is committed: the
\* browser takes the next macrotask
Quiet == jobs = <<>> /\ effectDeps = Deps(State)

\* lines 864-868: the main execution loop effect, run by the commit that
\* changed one of its dependencies
Commit ==
  /\ jobs = <<>>
  /\ effectDeps # Deps(State)
  /\ LET S == [State EXCEPT !.effectDeps = Deps(State)] IN
     IF S.isPlaying /\ ~S.isWaveRunning /\ S.isReady
     THEN Becomes(runBenchmarkSequence(S))
     ELSE Becomes(S)

\* the next runnable continuation of a runBenchmarkSequence call
RunJob ==
  /\ jobs # <<>>
  /\ LET job == Head(jobs) IN
     Becomes(Continue([State EXCEPT !.jobs = Tail(jobs)], job.l, job.v))

\* ------------------------------------------------------------ user actions
\* a click handler runs in the closure of the last render; React commits its
\* updates at once, so the effect of line 777 (isPlayingRef) runs with it
Click(S) == [S EXCEPT !.budget = S.budget - 1, !.isPlayingRef = S.isPlaying]

PlayDisabled == ~isReady \/ (isWaveRunning /\ isExecuting)

TogglePlay ==
  /\ Quiet /\ budget > 0
  /\ isPlaying \/ ~PlayDisabled
  /\ Becomes(Click([State EXCEPT !.isPlaying = ~isPlaying]))

handleStop(S) ==
  LET S1 == stopExecution([S EXCEPT !.isPlaying = FALSE], S.isExecuting, S.isInstalling)
  IN [S1 EXCEPT !.isWaveRunning = FALSE, !.status = "IDLE"]

HandleStop ==
  /\ Quiet /\ budget > 0
  /\ Becomes(Click(handleStop(State)))

\* the reset field of a call records that the call was suspended when
\* handleReset ran
handleReset(S) ==
  clearOutput([S EXCEPT !.isPlaying = FALSE, !.isWaveRunning = FALSE, !.wave = 0,
                        !.leaderboard = <<>>, !.status = "IDLE",
                        !.loops = [k \in 1..Len(S.loops) |->
                                     [S.loops[k] EXCEPT !.reset = (S.loops[k].pc # "done")]]])

HandleReset ==
  /\ Quiet /\ budget > 0
  /\ Becomes(Click(handleReset(State)))

ClearOutput ==
  /\ Quiet /\ budget > 0
  /\ Becomes(Click(clearOutput(State)))

\* ------------------------------------------------------------------ timers
\* the timer of line 946, set for the proposal at index k of call l, fires:
\* timedOut and resolve belong to that proposal's race, so a timer that
\* fires after its race was left changes nothing
TimeoutFires ==
  /\ Quiet
  /\ \E l \in 1..Len(loops) :
       \E k \in loops[l].timers :
         LET S == [State EXCEPT !.loops[l].timers = loops[l].timers \ {k}] IN
         IF loops[l].pc = "race" /\ loops[l].i = k
         THEN Becomes([S EXCEPT !.loops[l].timedOut = TRUE,
                                !.jobs = Append(jobs, [l |-> l, v |-> FALSE])])
         ELSE Becomes(S)

\* the timer of line 1041
CooldownEnds ==
  /\ Quiet
  /\ wave < MaxWave
  /\ \E l \in 1..Len(loops) :
       /\ loops[l].pc = "cooldown"
       /\ Becomes([State EXCEPT !.jobs = Append(jobs, [l |-> l, v |-> TRUE])])

\* ------------------------------------------------------------- the worker
\* The worker handles its requests in order.  A response is delivered to
\* worker.onmessage in the same step: Worker.terminate() discards what the
\* worker has posted and the main thread has not yet handled.
\* done lists the success flags of the DONE responses to the request last
\* handled
Pop(S) ==
  [S EXCEPT !.worker.queue = Tail(S.worker.queue), !.worker.lines = 0, !.worker.done = <<>>]

HeadIs(type) == worker.queue # <<>> /\ Head(worker.queue).type = type

\* initPyodide of the worker posts READY
WorkerReady ==
  /\ Quiet /\ worker.alive /\ worker.init = "loading"
  /\ Becomes(onReady([State EXCEPT !.worker.init = "ready", !.worker.pyodide = TRUE]))

\* initPyodide of the worker posts ERROR; loadPyodide may or may not have returned
WorkerInitError ==
  /\ Quiet /\ worker.alive /\ worker.init = "loading"
  /\ \E py \in BOOLEAN :
       Becomes(onError([State EXCEPT !.worker.init = "error", !.worker.pyodide = py]))

\* if (!pyodide) return
WorkerDrop ==
  /\ Quiet /\ worker.alive /\ worker.queue # <<>> /\ ~worker.pyodide
  /\ Becomes(Pop(State))

WorkerInstalled ==
  /\ Quiet /\ worker.alive /\ worker.pyodide /\ HeadIs("INSTALL")
  /\ Becomes(onInstalled(Pop(State), Head(worker.queue).packages))

WorkerInstallError ==
  /\ Quiet /\ worker.alive /\ worker.pyodide /\ HeadIs("INSTALL")
  /\ Becomes(onInstallError(Pop(State)))

\* the file names of the model, those of them that start with 'test_', and
\* those FS.writeFile throws on (their directory does not exist)
FileNames == { "main.py", "algo.py", "test_a.py", "test_b.py", "my_test_a.py", "pkg/mod.py" }
TestFileNames == { "test_main.py", "test_a.py", "test_b.py" }
UnwritableNames == { "pkg/mod.py" }

IsTestFile(name) == name \in TestFileNames

\* faulty variant: the last file whose name starts with 'test_'
testFileLast(files) ==
  IF \E k \in 1..Len(files) : IsTestFile(files[k].name)
  THEN CHOOSE k \in 1..Len(files) :
         IsTestFile(files[k].name) /\ \A j \in (k+1)..Len(files) : ~IsTestFile(files[j].name)
  ELSE 0

\* files.find(f => f.name.startsWith('test_')): the index of the first such
\* file, 0 if none
testFile(files) ==
  IF \E k \in 1..Len(files) : IsTestFile(files[k].name)
  THEN CHOOSE k \in 1..Len(files) :
         IsTestFile(files[k].name) /\ \A j \in 1..(k-1) : ~IsTestFile(files[j].name)
  ELSE 0

\* files.find(f => f.name === 'main.py')
mainFile(files) ==
  IF \E k \in 1..Len(files) : files[k].name = "main.py"
  THEN CHOOSE k \in 1..Len(files) :
         files[k].name = "main.py" /\ \A j \in 1..(k-1) : files[j].name # "main.py"
  ELSE 0

\* the entry point of a file set: "test", "main" or "none"
EntryPoint(files) ==
  IF testFile(files) > 0 THEN "test"
  ELSE IF mainFile(files) > 0 THEN "main"
  ELSE "none"

\* the for loop of lines 74-76 ends without an exception
Written(files) == \A k \in 1..Len(files) : files[k].name \notin UnwritableNames

\* the OUTPUT that announces the entry point
EntryLine(files) ==
  IF testFile(files) > 0 THEN Line("> Running tests in " \o files[testFile(files)].name)
  ELSE Line("> Running " \o files[mainFile(files)].name)

\* the first OUTPUT of runCode of the worker, posted before the entry point
\* runs, is delivered with the first response that follows it
RunningLine(S) ==
  IF S.worker.lines > 0 THEN S
  ELSE onOutput(S, EntryLine(Head(S.worker.queue).files))

\* DONE is posted and handled
Done(S, success) ==
  onDone([S EXCEPT !.worker.done = Append(S.worker.done, success)], success)

ResultLines(text) == { k \in 1..Len(text) : text[k].tag = "__BENCHMARK_STEP__:" }

\* the executed code prints a result line
WorkerPrint ==
  /\ Quiet /\ worker.alive /\ worker.pyodide /\ HeadIs("RUN")
  /\ Written(Head(worker.queue).files)
  /\ EntryPoint(Head(worker.queue).files) # "none"
  /\ Cardinality(ResultLines(fullOutputRef)) < MaxLines
  /\ \E r \in SandboxResults :
       Becomes(onOutput([RunningLine(State) EXCEPT !.worker.lines = worker.lines + 1],
                        SentinelLine(r)))

\* faulty variant: the catch of lines 103-106 and the main script post no DONE after a throw
RunEndsNoDone(S, files) ==
  IF ~Written(files)
  THEN { onOutput(Pop(S), Line("--- PYTHON ERROR ---")) }
  ELSE IF EntryPoint(files) = "none"
  THEN { Done(onOutput(Pop(S), Line("No entrypoint found")), FALSE) }
  ELSE IF EntryPoint(files) = "test"
  THEN { Done(Pop(RunningLine(S)), TRUE),
         Done(Pop(RunningLine(S)), FALSE),
         Done(onOutput(Pop(RunningLine(S)), Line("Error: pytest not found.")), FALSE) }
  ELSE { Done(Pop(RunningLine(S)), TRUE),
         onOutput(Pop(RunningLine(S)), Line("--- PYTHON ERROR ---")) }

\* the states runCode of the worker can end in, file set files at the head of
\* the queue: a write throws; no entry point; the test runner returns exit
\* code 0, returns another exit code, or throws; main.py completes or throws
RunEnds(S, files) ==
  IF ~Written(files)
  THEN { Done(onOutput(Pop(S), Line("--- PYTHON ERROR ---")), FALSE) }
  ELSE IF EntryPoint(files) = "none"
  THEN { Done(onOutput(Pop(S), Line("No entrypoint found")), FALSE) }
  ELSE IF EntryPoint(files) = "test"
  THEN { Done(Pop(RunningLine(S)), TRUE),
         Done(Pop(RunningLine(S)), FALSE),
         Done(onOutput(Pop(RunningLine(S)), Line("Error: pytest not found.")), FALSE) }
  ELSE { Done(Pop(RunningLine(S)), TRUE),
         Done(onOutput(Pop(RunningLine(S)), Line("--- PYTHON ERROR ---")), FALSE) }

\* runCode of the worker ends
WorkerDone ==
  /\ Quiet /\ worker.alive /\ worker.pyodide /\ HeadIs("RUN")
  /\ \E S \in RunEnds(State, Head(worker.queue).files) : Becomes(S)

\* the worker dies with an uncaught error: worker.onerror runs, and the
\* worker answers nothing any more
WorkerErrorEvent ==
  /\ Quiet /\ worker.alive /\ worker.init # "error"
  /\ Becomes(onWorkerErrorEvent([State EXCEPT !.worker.init = "error",
                                              !.worker.pyodide = FALSE]))

\* the sequencer, the worker and the timers
Run ==
  \/ Commit
  \/ RunJob
  \/ TimeoutFires
  \/ CooldownEnds
  \/ WorkerReady
  \/ WorkerInitError
  \/ WorkerDrop
  \/ WorkerInstalled
  \/ WorkerInstallError
  \/ WorkerPrint
  \/ WorkerDone
  \/ WorkerErrorEvent

\* the user plays and pauses
Next ==
  \/ Run
  \/ TogglePlay

Spec == Init /\ [][Next]_vars

\* the user calls every handler
NextUser ==
  \/ Run
  \/ TogglePlay
  \/ HandleStop
  \/ HandleReset
  \/ ClearOutput

SpecUser == InitUser /\ [][NextUser]_vars

\* one proposal; the user plays and pauses
SpecPause == InitUser /\ [][Next]_vars

\* one proposal and no dependency; the user plays, pauses and resets
InitReset ==
  /\ InitWith(UserProposalLists, MaxToggles)
  /\ dependencies = <<>>

NextReset ==
  \/ Commit
  \/ RunJob
  \/ TimeoutFires
  \/ CooldownEnds
  \/ WorkerReady
  \/ WorkerInitError
  \/ WorkerDrop
  \/ WorkerPrint
  \/ WorkerDone
  \/ WorkerErrorEvent
  \/ TogglePlay
  \/ HandleReset

SpecReset == InitReset /\ [][NextReset]_vars

\* ------------------------------------------------- the hook, called directly
\* A machine for the session functions of usePyodide: a component calls
\* installPackages and initPyodide from its last render, and the worker
\* answers.  Nobody awaits the promises.
PackageLists == { <<>>, <<"numpy">>, <<"pandas">>, <<"numpy", "pandas">> }

InstallCall ==
  /\ Quiet /\ budget > 0
  /\ \E packages \in PackageLists :
       Becomes(installPackages([State EXCEPT !.budget = budget - 1], MountResolver, "install",
                               packages, isReady))

InitCall ==
  /\ Quiet /\ budget > 0
  /\ Becomes(initPyodide([State EXCEPT !.budget = budget - 1], MountResolver))

InitInstall ==
  /\ InitWith(UserProposalLists, MaxCalls)
  /\ dependencies = <<>>

NextInstall ==
  \/ Commit
  \/ InstallCall
  \/ InitCall
  \/ WorkerReady
  \/ WorkerInitError
  \/ WorkerDrop
  \/ WorkerInstalled
  \/ WorkerInstallError
  \/ WorkerErrorEvent

SpecInstall == InitInstall /\ [][NextInstall]_vars

\* ------------------------------------------------- the worker's runCode
\* The file lists of a RUN request: every list of at most MaxFiles names.
RECURSIVE ListsUpTo(_)
ListsUpTo(n) ==
  IF n = 0 THEN { <<>> }
  ELSE LET shorter == ListsUpTo(n - 1)
       IN shorter \cup { Append(fs, File(name, "")) : fs \in shorter, name \in FileNames }

FileLists == ListsUpTo(MaxFiles)

\* runCode of the hook called with a file list; the caller awaits the promise
\* of its last call before it calls again
RunCall ==
  /\ Quiet /\ budget > 0 /\ runResolveRef = NoResolver
  /\ \E files \in FileLists :
       Becomes(runFiles([State EXCEPT !.budget = budget - 1], MountResolver, files, isReady))

InitWorker == InitWith(UserProposalLists, MaxRuns) /\ dependencies = <<>>

NextWorker ==
  \/ Commit
  \/ RunCall
  \/ WorkerReady
  \/ WorkerInitError
  \/ WorkerDrop
  \/ WorkerPrint
  \/ WorkerDone
  \/ WorkerErrorEvent

SpecWorker == InitWorker /\ [][NextWorker]_vars

\* -------------------------------------------------------- ModelConfigPanel
\* faulty variant: removing a proposal drops its leaderboard entry too
removeProposalAndEntry(S, id) ==
  LET gone == { S.proposals[k].name : k \in { j \in 1..Len(S.proposals) : S.proposals[j].id = id } }
  IN [S EXCEPT !.proposals = SelectSeq(S.proposals, LAMBDA p : p.id # id),
               !.leaderboard = SelectSeq(S.leaderboard, LAMBDA e : e.name \notin gone)]

\* ModelConfigPanel, lines 62-65: onChange is setProposals
removeProposal(S, id) ==
  [S EXCEPT !.proposals = SelectSeq(S.proposals, LAMBDA p : p.id # id)]

RemoveProposal ==
  /\ Quiet /\ budget > 0
  /\ \E k \in 1..Len(proposals) : Becomes(Click(removeProposal(State, proposals[k].id)))

\* the sequencer with play, pause and the removal of proposals
InitRemove ==
  /\ InitWith({ << [id |-> "p1", name |-> "A - algo", active |-> TRUE],
                   [id |-> "p2", name |-> "B - algo", active |-> TRUE] >> }, MaxToggles)
  /\ dependencies = <<>>

NextRemove ==
  \/ Commit
  \/ RunJob
  \/ TimeoutFires
  \/ CooldownEnds
  \/ WorkerReady
  \/ WorkerInitError
  \/ WorkerDrop
  \/ WorkerPrint
  \/ WorkerDone
  \/ WorkerErrorEvent
  \/ TogglePlay
  \/ RemoveProposal

SpecRemove == InitRemove /\ [][NextRemove]_vars

\* ------------------------------------------------- play, pause and stop
InitStop ==
  /\ InitWith(ProposalLists, MaxToggles)
  /\ dependencies = <<>>

NextStop ==
  \/ Commit
  \/ RunJob
  \/ TimeoutFires
  \/ CooldownEnds
  \/ WorkerReady
  \/ WorkerDone
  \/ TogglePlay
  \/ HandleStop

SpecStop == InitStop /\ [][NextStop]_vars

\* -------------------------------------------- the inputs edited in a round
\* addProposal: the new id is random, here the one id not yet in the list
NewProposal == [id |-> "p3", name |-> "New Model - My Algorithm", active |-> TRUE]

addProposal(S) == [S EXCEPT !.proposals = Append(S.proposals, NewProposal)]

\* updateProposal(id, field, value); of the fields, name stands for
\* modelName and algorithmName
updateProposal(S, id, field, value) ==
  [S EXCEPT !.proposals =
     [k \in 1..Len(S.proposals) |->
        IF S.proposals[k].id # id THEN S.proposals[k]
        ELSE IF field = "active" THEN [S.proposals[k] EXCEPT !.active = value]
        ELSE [S.proposals[k] EXCEPT !.name = value]]]

AddProposal ==
  /\ Quiet /\ budget > 0
  /\ \A k \in 1..Len(proposals) : proposals[k].id # NewProposal.id
  /\ Becomes(Click(addProposal(State)))

UpdateProposal ==
  /\ Quiet /\ budget > 0
  /\ \E k \in 1..Len(proposals) :
       \/ Becomes(Click(updateProposal(State, proposals[k].id, "active", ~proposals[k].active)))
       \/ Becomes(Click(updateProposal(State, proposals[k].id, "name", "C - algo")))

\* the dependency list and the timeout of the settings panel
SetDependencies ==
  /\ Quiet /\ budget > 0
  /\ \E d \in DependencyLists :
       d # dependencies /\ Becomes(Click([State EXCEPT !.dependencies = d]))

TimeoutChoices == { 1, 9 }

SetTimeoutSecs ==
  /\ Quiet /\ budget > 0
  /\ \E t \in TimeoutChoices :
       t # timeoutSecs /\ Becomes(Click([State EXCEPT !.timeoutSecs = t]))

InitEdit ==
  /\ InitWith({ << [id |-> "p1", name |-> "A - algo", active |-> TRUE],
                   [id |-> "p2", name |-> "B - algo", active |-> TRUE] >> }, MaxEdits)
  /\ dependencies = <<>>

NextEdit ==
  \/ Commit
  \/ RunJob
  \/ CooldownEnds
  \/ WorkerReady
  \/ WorkerInstalled
  \/ WorkerDone
  \/ TogglePlay
  \/ RemoveProposal
  \/ AddProposal
  \/ UpdateProposal
  \/ SetDependencies
  \/ SetTimeoutSecs

SpecEdit == InitEdit /\ [][NextEdit]_vars

\* ------------------------------------------------- the leaderboard alone
\* a result line whose time is the elapsed_seconds the proposal's plan
\* returned, which the harness prints as it is
NegativeResults ==
  { [name |-> "A - algo", verified |-> TRUE, score |-> 2, batches |-> 1, time |-> -1,
     error |-> NoError] }

MergeResults ==
  SandboxResults \cup NegativeResults
    \cup { FailureResult(n, e, 0) : n \in Names,
           e \in {"Timeout", "Runtime Error", "Output Parsing Failed"} }
MergeWaves == 0..MaxWave

InitMerge ==
  /\ InitWith(ProposalLists, MaxMerges)
  /\ dependencies = <<>>

Merge ==
  /\ budget > 0
  /\ \E r \in MergeResults, w \in MergeWaves :
       Becomes([State EXCEPT !.leaderboard = updateLeaderboard(leaderboard, r, w),
                             !.budget = budget - 1])

Placeholder ==
  /\ budget > 0
  /\ \E n \in Names :
       Becomes([State EXCEPT !.leaderboard = insertPlaceholder(leaderboard, n),
                             !.budget = budget - 1])

NextMerge ==
  \/ Merge
  \/ Placeholder

SpecMerge == InitMerge /\ [][NextMerge]_vars

\* ------------------------------------------------ the parse of a run's output
\* A second machine for lines 997-1031 as a function: a clean run whose
\* output slice is any bounded sequence of lines is parsed into the
\* leaderboard of the round.  The buffer holds the slice of the last run.
RunLines ==
  { Line("> Running main.py"), MalformedLine }
    \cup { SentinelLine(r) : r \in SandboxResults }
RunOutputs == UNION { [1..n -> RunLines] : n \in 0..MaxOutput }

ParseRun ==
  /\ budget > 0
  /\ \E lines \in RunOutputs, n \in Names :
       Becomes([State EXCEPT !.fullOutputRef = lines,
                             !.leaderboard = ParseRunOutput(leaderboard, lines, n, wave),
                             !.budget = budget - 1])

InitParse ==
  /\ InitWith(UserProposalLists, MaxMerges)
  /\ dependencies = <<>>

NextParse == ParseRun

SpecParse == InitParse /\ [][NextParse]_vars

\* ------------------------------------------------------------ RankingTable
\* A third machine for the RankingTable component: the results it is
\* rendered with grow to any bounded list of leaderboard rows, and the user
\* clicks the column headers.
SortFields == {"model", "score", "completedWaves", "batches", "time"}

\* model names, in the order of < on JavaScript strings
ModelNames == << "Model A", "Model B" >>
StringRank(str) == CHOOSE k \in 1..Len(ModelNames) : ModelNames[k] = str

\* a[sortField]
FieldOf(row, field) ==
  CASE field = "model" -> row.model
    [] field = "score" -> row.score
    [] field = "completedWaves" -> row.completedWaves
    [] field = "batches" -> row.batches
    [] field = "time" -> row.time

\* valA < valB: numbers by value, strings in lexicographic order
Less(valA, valB, field) ==
  IF field = "model" THEN StringRank(valA) < StringRank(valB) ELSE valA < valB

\* faulty variant: the comparator without the rule for failures
compareByFieldOnly(a, b, field, asc) ==
  LET valA == FieldOf(a, field)
      valB == FieldOf(b, field)
  IN IF Less(valA, valB, field) THEN (IF asc THEN -1 ELSE 1)
     ELSE IF Less(valB, valA, field) THEN (IF asc THEN 1 ELSE -1)
     ELSE 0

\* the comparator of lines 15-27; the fields the headers sort by are
\* required fields of RunResultDetail, so none is undefined
compare(a, b, field, asc) ==
  LET valA == FieldOf(a, field)
      valB == FieldOf(b, field)
  IN IF ~a.verified /\ b.verified THEN 1
     ELSE IF a.verified /\ ~b.verified THEN -1
     ELSE IF Less(valA, valB, field) THEN (IF asc THEN -1 ELSE 1)
     ELSE IF Less(valB, valA, field) THEN (IF asc THEN 1 ELSE -1)
     ELSE 0

\* Array.prototype.sort is a stable sort: each row goes behind the last row
\* that the comparator does not put after it
Insert(sorted, x, field, asc) ==
  LET notAfter == { i \in 1..Len(sorted) : compare(sorted[i], x, field, asc) <= 0 }
      p == IF notAfter = {} THEN 0 ELSE CHOOSE i \in notAfter : \A j \in notAfter : j <= i
  IN SubSeq(sorted, 1, p) \o << x >> \o SubSeq(sorted, p + 1, Len(sorted))

RECURSIVE sort(_, _, _)
sort(rows, field, asc) ==
  IF rows = <<>> THEN <<>>
  ELSE Insert(sort(SubSeq(rows, 1, Len(rows) - 1), field, asc), rows[Len(rows)], field, asc)

\* line 15
sortedResults == sort(leaderboard, sortField, sortAsc)

\* lines 30-38
handleHeaderClick(S, field) ==
  IF S.sortField = field
  THEN [S EXCEPT !.sortAsc = ~S.sortAsc]
  ELSE [S EXCEPT !.sortField = field,
                 !.sortAsc = field \in {"time", "batches", "score"}]

\* what a row of the table may hold
RankValues ==
  { [model |-> "Model B", score |-> 100, batches |-> 1, time |-> 2, completedWaves |-> 2,
     verified |-> TRUE, error |-> NoError],
    [model |-> "Model A", score |-> 50, batches |-> 2, time |-> 1, completedWaves |-> 1,
     verified |-> TRUE, error |-> NoError],
    [model |-> "Model B", score |-> 50, batches |-> 1, time |-> 1, completedWaves |-> 1,
     verified |-> TRUE, error |-> NoError],
    [model |-> "Model A", score |-> 999, batches |-> 1, time |-> 1, completedWaves |-> 0,
     verified |-> FALSE, error |-> "Timeout"],
    [model |-> "Model B", score |-> 0, batches |-> 0, time |-> 5, completedWaves |-> 0,
     verified |-> FALSE, error |-> "Runtime Error"] }

\* the i-th row of a list; rows of a leaderboard have different names
Row(i, v) ==
  [name |-> ModelNames[1 + (i % 2)] \o " - algo " \o ToString(i), model |-> v.model,
   score |-> v.score, batches |-> v.batches, time |-> v.time, verified |-> v.verified,
   completedWaves |-> v.completedWaves, lastVerifiedWave |-> 0, error |-> v.error]

InitRank ==
  /\ InitWith(UserProposalLists, 0)
  /\ dependencies = <<>>

\* the table is rendered with one more row, pushed as updateLeaderboard
\* pushes the entry of a new name
Render ==
  /\ Len(leaderboard) < MaxRows
  /\ \E v \in RankValues :
       Becomes([State EXCEPT !.leaderboard = Append(leaderboard, Row(Len(leaderboard) + 1, v))])

HeaderClick ==
  \E field \in SortFields : Becomes(handleHeaderClick(State, field))

NextRank ==
  \/ Render
  \/ HeaderClick

SpecRank == InitRank /\ [][NextRank]_vars

\* ================================================================ claims
\* helpers of the claims: what a step does to call l
StartedBy(l) ==
  /\ l <= Len(loops') /\ loops'[l].pc # "done"
  /\ l > Len(loops) \/ loops[l].pc = "done"

\* the step makes call l call runCode for a proposal
RunCalledBy(l) ==
  /\ l <= Len(loops') /\ loops'[l].pc = "race"
  /\ \/ l > Len(loops)
     \/ loops[l].pc # "race"
     \/ loops[l].i # loops'[l].i

\* the step is the continuation of call l after its race
ClassifiedBy(l) ==
  /\ jobs # <<>> /\ Head(jobs).l = l
  /\ l <= Len(loops) /\ loops[l].pc = "race"

Failures == {"Timeout", "Runtime Error", "Output Parsing Failed"}

\* the classification the continuation of the race of call l is about to make
Classification(l) ==
  IF loops[l].timedOut THEN "Timeout"
  ELSE IF ~Head(jobs).v THEN "Runtime Error"
  ELSE IF FirstSentinel(RunOutput(State, l)) = 0 THEN "Output Parsing Failed"
  ELSE "ok"

EntryOf(lb, nm) == lb[FindIndex(lb, nm)]

\* C1: merging a result for a round a second time leaves the leaderboard as
\* the first merge left it: the entry then has lastVerifiedWave equal to the
\* round and no cumulative field changes.
C1_IdempotentMerge ==
  \A r \in MergeResults, w \in MergeWaves :
    LET once == updateLeaderboard(leaderboard, r, w) IN
    /\ FindIndex(once, r.name) > 0
    /\ EntryOf(once, r.name).lastVerifiedWave = w
    /\ updateLeaderboard(once, r, w) = once

\* an entry that two rounds were folded into
C1_Witness ==
  \E i \in 1..Len(leaderboard) :
    leaderboard[i].completedWaves = 2 /\ leaderboard[i].lastVerifiedWave = 1

\* C2 (as claimed): once an entry has verified = FALSE, no later round calls
\* runCode for a proposal of that name, and the entry's completedWaves never
\* changes again while the entry exists.
C2_PermanentDisqualification ==
  [][\A k \in 1..Len(leaderboard) :
       (~leaderboard[k].verified /\ FindIndex(leaderboard', leaderboard[k].name) > 0) =>
         /\ EntryOf(leaderboard', leaderboard[k].name).completedWaves = leaderboard[k].completedWaves
         /\ \A l \in 1..Len(loops') :
              (RunCalledBy(l) /\ loops'[l].currentWaveSeed > leaderboard[k].lastVerifiedWave)
                => loops'[l].activeProposals[loops'[l].i].name # leaderboard[k].name]_vars

\* C3 (as claimed): a run classified as Timeout, Runtime Error or Output
\* Parsing Failed leaves the entry of the proposal that was run with
\* verified = FALSE once the classification is merged.
C3_FailureDisqualifies ==
  [][\A l \in 1..Len(loops) :
       (ClassifiedBy(l) /\ Classification(l) \in Failures) =>
         LET fullName == loops[l].activeProposals[loops[l].i].name IN
         /\ FindIndex(leaderboard', fullName) > 0
         /\ ~EntryOf(leaderboard', fullName).verified]_vars

\* C4: when the timer wins the race the run is classified as Timeout and the
\* worker is terminated and created anew; once the new worker is ready the
\* call goes on: its reinstall and its next runCode call post their request
\* to the new worker, and every runCode call of the sequencer, in that round
\* or a later one, posts a RUN request (none is resolved false as not ready).
C4_TimeoutRecovery ==
  [][/\ \A l \in 1..Len(loops) :
          /\ (ClassifiedBy(l) /\ loops[l].timedOut) =>
               /\ loops'[l].pc = "ready" /\ loops'[l].cls = "Timeout"
               /\ worker' = FreshWorker /\ workerRef' = LiveWorker
               /\ readyResolveRef' = l /\ runResolveRef' = NoResolver
          /\ (loops[l].cls = "Timeout" /\ loops[l].pc \in {"ready", "reinstall"} /\ RunCalledBy(l)) =>
               /\ worker'.init = "ready" /\ isReady'
          /\ (l <= Len(loops') /\ loops[l].cls = "Timeout" /\ loops[l].pc = "ready"
                /\ loops'[l].pc = "reinstall") =>
               /\ worker'.alive /\ worker'.init = "ready"
               /\ worker'.queue # <<>> /\ Head(worker'.queue).type = "INSTALL"
     /\ \A l \in 1..Len(loops') :
          RunCalledBy(l) =>
            /\ loops'[l].sent
            /\ worker'.alive /\ workerRef' = LiveWorker
            /\ worker'.queue # <<>>
            /\ worker'.queue[Len(worker'.queue)].type = "RUN"
            /\ runResolveRef' = l]_vars

\* the run after a recovery from a timeout is in flight on the new worker
C4_Witness ==
  \E l \in 1..Len(loops) :
    /\ loops[l].pc = "race" /\ loops[l].cls = "Timeout" /\ loops[l].sent
    /\ worker.alive /\ worker.init = "ready" /\ HeadIs("RUN")

\* C5 (as claimed): while the outcome of a run is not yet classified by the
\* call that started it, no other call posts a RUN request and no other call
\* of runBenchmarkSequence starts.
C5_SingleRun ==
  [][\A l1 \in 1..Len(loops) :
       loops[l1].pc = "race" =>
         \A l2 \in 1..Len(loops') :
           l2 # l1 => ~StartedBy(l2) /\ ~(RunCalledBy(l2) /\ loops'[l2].sent)]_vars

\* C6: a call of runBenchmarkSequence calls runCode in the order of its
\* snapshot, passing over disqualified proposals only; it does so at its
\* start, or after it has merged the outcome of the previous run, and after
\* a Timeout or Runtime Error only when the new worker is ready and the
\* reinstall of the snapshot's dependencies has been answered.
C6_SnapshotOrder ==
  [][\A l \in 1..Len(loops') :
       RunCalledBy(l) =>
         LET new == loops'[l]
             fresh == l > Len(loops) \/ loops[l].pc \in {"done", "install"}
             from == IF fresh THEN 0 ELSE loops[l].i
         IN /\ new.i > from
            /\ \A k \in (from + 1)..(new.i - 1) :
                 LET nm == new.activeProposals[k].name IN
                 FindIndex(new.cLeaderboard, nm) > 0 /\ ~EntryOf(new.cLeaderboard, nm).verified
            /\ ~fresh =>
                 /\ new.activeProposals = loops[l].activeProposals
                 /\ new.currentWaveSeed = loops[l].currentWaveSeed
                 /\ loops[l].pc = "race" =>
                      /\ Classification(l) \notin {"Timeout", "Runtime Error"}
                      /\ new.cls = Classification(l)
                      /\ LET nm == loops[l].activeProposals[loops[l].i].name
                             res == IF Classification(l) = "ok"
                                    THEN RunOutput(State, l)[FirstSentinel(RunOutput(State, l))].res
                                    ELSE FailureResult(nm, "Output Parsing Failed", 0)
                         IN leaderboard' = insertPlaceholder(
                                             updateLeaderboard(leaderboard, res, new.currentWaveSeed),
                                             new.activeProposals[new.i].name)
                 /\ loops[l].pc # "race" =>
                      /\ loops[l].cls \in {"Timeout", "Runtime Error"}
                      /\ worker.alive /\ worker.init = "ready" /\ isReady
                      /\ loops[l].pc = "ready" => Len(new.pkgs) = 0
                      /\ Len(new.pkgs) > 0 => loops[l].pc = "reinstall"]_vars

\* the second proposal of a snapshot runs after a recovery and a reinstall
C6_Witness ==
  \E l \in 1..Len(loops) :
    /\ loops[l].pc = "race" /\ loops[l].i = 2 /\ loops[l].sent
    /\ loops[l].cls \in {"Timeout", "Runtime Error"}
    /\ Len(loops[l].pkgs) > 0 /\ installedPackagesRef = SeqToSet(loops[l].pkgs)

\* C7 (as claimed): when terminateWorker returns no resolver is left: the
\* run, install and ready promises outstanding at the call are resolved.
C7_TerminateResolvesAll ==
  [][(HandleStop /\ (isExecuting \/ isInstalling)) =>
       /\ runResolveRef' = NoResolver
       /\ installResolveRef' = NoResolver
       /\ readyResolveRef' = NoResolver]_vars

\* C8 (as claimed): worker.onerror resolves the outstanding run or install
\* promise, so that its awaiter is runnable when the handler returns.
C8_FatalErrorResolves ==
  [][WorkerErrorEvent =>
       /\ runResolveRef' = NoResolver /\ installResolveRef' = NoResolver
       /\ \A l \in 1..Len(loops) :
            (loops[l].pc \in {"race", "install", "reinstall"} /\ l \in {runResolveRef, installResolveRef})
              => \E k \in 1..Len(jobs') : jobs'[k].l = l]_vars

\* C9 (as claimed): handleStop during a round terminates the sandbox call in
\* flight and resolves its promise, and leaves the sequencer stopped: the
\* call of runBenchmarkSequence that awaited the sandbox is runnable, none
\* stays suspended on the terminated worker.
C9_StopResumesAwaiter ==
  [][(HandleStop /\ isWaveRunning /\ (isExecuting \/ isInstalling)) =>
       /\ workerRef' = NullWorker /\ ~worker'.alive
       /\ ~isPlaying' /\ ~isWaveRunning'
       /\ \A l \in 1..Len(loops) :
            loops[l].pc \in {"race", "install", "reinstall"} =>
              \E k \in 1..Len(jobs') : jobs'[k].l = l]_vars

\* nothing but a user action can happen: no continuation, commit or timer is
\* pending and the worker has answered every request
Settled ==
  /\ Quiet
  /\ \A l \in 1..Len(loops) : loops[l].pc \notin {"race", "cooldown"}
  /\ worker.alive => (worker.init = "ready" /\ worker.queue = <<>>)

\* C10 (as claimed), as the final state it requires: when the sequencer has
\* come to rest with play off and the sandbox has answered every request,
\* play can be toggled on and the effect then starts a round.
C10_PlayRestarts ==
  (Settled /\ ~isPlaying) => (~PlayDisabled /\ isReady /\ ~isWaveRunning)

\* the step is the continuation of call l after its cooldown
CooldownDoneBy(l) ==
  /\ jobs # <<>> /\ Head(jobs).l = l
  /\ l <= Len(loops) /\ loops[l].pc = "cooldown"

\* call l is suspended, or was not yet started, before the step
InLoop(l) == l <= Len(loops) /\ loops[l].pc \notin {"cooldown", "done"}
Returned(l) == l > Len(loops') \/ loops'[l].pc = "done"

\* C11: a pass over the snapshot that finds play on at its end goes to the
\* cooldown and never returns without it; the continuation of the cooldown
\* adds 1 to wave, once, and ends the call with the effect due; nothing else
\* changes wave; and the sequence the effect then starts is the only one and
\* runs the round wave names.  For snapshots of 0, 1 and 2 proposals.
C11_RoundCompletion ==
  [][/\ \A l \in 1..Len(loops) :
          /\ CooldownDoneBy(l) =>
               /\ wave' = wave + 1 /\ wave = loops[l].currentWaveSeed
               /\ Returned(l) /\ ~isWaveRunning'
               /\ effectDeps' # << isPlaying', isWaveRunning', isReady' >>
          /\ (InLoop(l) /\ Returned(l)) => ~isPlayingRef
     /\ \A l \in 1..Len(loops') :
          /\ (loops'[l].pc = "cooldown" /\ (l > Len(loops) \/ loops[l].pc # "cooldown")) =>
               isPlayingRef' /\ wave' = wave
          /\ StartedBy(l) =>
               /\ Len(loops) = 0
               /\ loops'[l].currentWaveSeed = wave
     /\ wave' # wave => \E l \in 1..Len(loops) : CooldownDoneBy(l)
     /\ (Commit /\ isPlaying /\ ~isWaveRunning /\ isReady) => \E l \in 1..Len(loops') : StartedBy(l)]_vars

\* the second round runs its second proposal after a recovery in it
C11_Witness ==
  /\ wave = 1
  /\ \E l \in 1..Len(loops) :
       /\ loops[l].currentWaveSeed = 1 /\ loops[l].pc = "race" /\ loops[l].i = 2
       /\ loops[l].cls \in {"Timeout", "Runtime Error"}

\* C12: wave changes only by the reset, to 0, or by +1 in the continuation
\* of the cooldown of a call; a call enters the cooldown only when play is on
\* at its check after the loop, and a call that leaves its loop with play off
\* returns and leaves wave as it is.
C12_RoundCounter ==
  [][/\ wave' # wave =>
          \/ HandleReset /\ wave' = 0
          \/ \E l \in 1..Len(loops) : CooldownDoneBy(l) /\ wave' = wave + 1
     /\ \A l \in 1..Len(loops') :
          (loops'[l].pc = "cooldown" /\ (l > Len(loops) \/ loops[l].pc # "cooldown")) =>
            isPlayingRef
     /\ \A l \in 1..Len(loops) :
          (InLoop(l) /\ Returned(l)) =>
            /\ ~isPlayingRef /\ wave' = wave
            /\ ~isWaveRunning' /\ status' = "IDLE"]_vars

\* the second round was aborted by a pause and the counter still names it
C12_Witness ==
  /\ wave = 1 /\ ~isPlaying /\ loops = <<>> /\ isReady
  /\ status = "IDLE" /\ leaderboard # <<>>

\* the part of the buffer text after offset start
SliceFrom(text, start) ==
  IF start >= Len(text) THEN <<>> ELSE SubSeq(text, start + 1, Len(text))

IsPrefix(s, t) == Len(s) <= Len(t) /\ SubSeq(t, 1, Len(s)) = s

\* C13: the slice a run parses holds only what was appended for that run.
\* When the run is started the slice holds the line of its own runCode call
\* and nothing of what is in the buffer from earlier runs; while the run is
\* awaited the slice gets new text only while the worker handles the RUN
\* request of that very call (it may be emptied, never filled by another
\* run); and the restart after a Timeout or Runtime Error leaves nothing of
\* the earlier runs in the buffer.
C13_OutputIsolation ==
  [][/\ \A l \in 1..Len(loops') :
          /\ RunCalledBy(l) =>
               SliceFrom(fullOutputRef', loops'[l].startOutputLength) = << Line("> Executing code...") >>
          /\ (l <= Len(loops) /\ loops[l].pc = "race" /\ ~RunCalledBy(l) /\ loops'[l].pc = "race"
                /\ runResolveRef' = l) =>
               LET old == SliceFrom(fullOutputRef, loops[l].startOutputLength)
                   new == SliceFrom(fullOutputRef', loops'[l].startOutputLength)
               IN /\ loops'[l].startOutputLength = loops[l].startOutputLength
                  /\ \/ new = old
                     \/ new = <<>>
                     \/ IsPrefix(old, new) /\ HeadIs("RUN") /\ Head(worker.queue).l = l
     /\ \A l \in 1..Len(loops) :
          (ClassifiedBy(l) /\ Classification(l) \in {"Timeout", "Runtime Error"}) =>
            fullOutputRef' = <<>>]_vars

\* C14: between a run's capture of startOutputLength and its slicing of the
\* buffer no step empties or replaces the buffer: while a call is suspended
\* at the race of a run, every step leaves what the buffer holds and at most
\* appends to it.  Consequently, when the worker ends a run with success
\* after the run printed a result line, the slice of the call that is resumed
\* holds a result line, so the run is not merged as 'Output Parsing Failed'.
C14_BufferKept ==
  [][/\ \A l \in 1..Len(loops) :
          (loops[l].pc = "race" /\ l <= Len(loops') /\ loops'[l].pc = "race" /\ ~RunCalledBy(l)) =>
            IsPrefix(fullOutputRef, fullOutputRef')
     /\ \A l \in 1..Len(loops) :
          (/\ loops[l].pc = "race" /\ ~loops[l].timedOut
           /\ HeadIs("RUN") /\ Head(worker.queue).l = l /\ worker.lines > 0
           /\ jobs = <<>> /\ jobs' # <<>> /\ Head(jobs').l = l /\ Head(jobs').v = TRUE) =>
            FirstSentinel(SliceFrom(fullOutputRef', loops[l].startOutputLength)) > 0]_vars

\* C15: on a clean exit the result merged is the one carried by the first
\* line of the run's output slice that begins with the sentinel prefix; no
\* later line of the slice is used: when the first such line carries no
\* result that parses, the run is merged as one without a result.
C15_FirstSentinelMerged ==
  [][LET lines == fullOutputRef'
         first == { k \in ResultLines(lines) : \A j \in ResultLines(lines) : k <= j }
     IN \A k \in first :
          \E n \in Names :
            leaderboard' = IF lines[k].json
                           THEN updateLeaderboard(leaderboard, lines[k].res, wave)
                           ELSE updateLeaderboard(leaderboard,
                                                  FailureResult(n, "Output Parsing Failed", 0), wave)]_vars

\* the proposal call l is executing
Executing(l) == loops[l].activeProposals[loops[l].i].name

\* the step leaves the worker and its session in place
NoRestart ==
  /\ workerRef' = workerRef /\ worker'.alive = worker.alive /\ worker'.init = worker.init
  /\ isReady' = isReady /\ installedPackagesRef' = installedPackagesRef
  /\ IsPrefix(fullOutputRef, fullOutputRef')

\* C16: when a run resolves with success = true and its output slice holds
\* no sentinel line, the sequencer merges the result verified = false,
\* score = 0, error = 'Output Parsing Failed' for the executing proposal,
\* and does not restart the session.
C16_ParsingFailed ==
  [][\A l \in 1..Len(loops) :
       (/\ ClassifiedBy(l) /\ ~loops[l].timedOut /\ Head(jobs).v = TRUE
        /\ ResultLines(RunOutput(State, l)) = {}) =>
         LET failed == [name |-> Executing(l), verified |-> FALSE, score |-> 0, batches |-> 0,
                        time |-> 0, error |-> "Output Parsing Failed"]
             merged == updateLeaderboard(leaderboard, failed, loops[l].currentWaveSeed)
         IN /\ FindIndex(leaderboard', Executing(l)) > 0
            /\ EntryOf(leaderboard', Executing(l)) = EntryOf(merged, Executing(l))
            /\ NoRestart]_vars

\* a clean run without a result line has been merged as 'Output Parsing
\* Failed' and the worker that served it is still the ready one
C16_Witness ==
  \E l \in 1..Len(loops) :
    /\ loops[l].cls = "Output Parsing Failed"
    /\ \E k \in 1..Len(leaderboard) :
         /\ leaderboard[k].error = "Output Parsing Failed" /\ ~leaderboard[k].verified
         /\ leaderboard[k].score = 0
    /\ workerRef = LiveWorker /\ worker.alive /\ worker.init = "ready"

\* the step is a restartWorker of call l: a new worker replaces the old one
\* and call l awaits its READY
RestartedBy(l) ==
  /\ readyResolveRef' = l /\ readyResolveRef # l
  /\ worker' = FreshWorker /\ workerRef' = LiveWorker

\* C17: the sequencer calls restartWorker after a run if and only if the run
\* was classified Timeout or Runtime Error.  A run that resolved with
\* success = true, parsed or not, is not followed by a restart: the step
\* leaves the session in place, and the next run request goes to the same
\* worker.
C17_RestartOnlyOnFailure ==
  [][/\ \A l \in 1..Len(loops') :
          RestartedBy(l) <=>
            (l <= Len(loops) /\ ClassifiedBy(l) /\ Classification(l) \in {"Timeout", "Runtime Error"})
     /\ (worker' = FreshWorker /\ worker # FreshWorker) => \E l \in 1..Len(loops) : RestartedBy(l)
     /\ \A l \in 1..Len(loops) :
          (ClassifiedBy(l) /\ Classification(l) \in {"ok", "Output Parsing Failed"}) =>
            /\ NoRestart
            /\ RunCalledBy(l) =>
                 /\ Len(worker'.queue) = Len(worker.queue) + 1
                 /\ SubSeq(worker'.queue, 1, Len(worker.queue)) = worker.queue
                 /\ worker'.queue[Len(worker'.queue)].type = "RUN"]_vars

\* the second run of a round is in flight on the worker that served the
\* first, which resolved with success = true
C17_Witness ==
  \E l \in 1..Len(loops) :
    /\ loops[l].pc = "race" /\ loops[l].i = 2
    /\ loops[l].cls \in {"ok", "Output Parsing Failed"}
    /\ worker.alive /\ worker.init = "ready" /\ HeadIs("RUN") /\ Head(worker.queue).l = l

\* the step is the continuation of call l after its await restartWorker()
ResumedAfterRestart(l) ==
  /\ jobs # <<>> /\ Head(jobs).l = l
  /\ loops[l].pc = "ready"

\* C18: after the restart of the Timeout or Runtime Error path and before
\* the next run request, the installed set of the new session being empty,
\* an INSTALL request for exactly the dependency list of the snapshot is
\* posted to the new worker (none when the list is empty), no run is
\* requested before the install is answered, and when INSTALLED is handled
\* the installed set is that list.
C18_ReinstallAfterRestart ==
  [][\A l \in 1..Len(loops) :
       LET pkgs == loops[l].pkgs IN
       /\ ResumedAfterRestart(l) =>
            /\ loops[l].cls \in {"Timeout", "Runtime Error"}
            /\ installedPackagesRef = {}
            /\ Len(pkgs) > 0 =>
                 /\ Len(worker'.queue) = Len(worker.queue) + 1
                 /\ worker'.queue[Len(worker'.queue)].type = "INSTALL"
                 /\ worker'.queue[Len(worker'.queue)].packages = pkgs
                 /\ worker'.alive /\ workerRef' = LiveWorker
                 /\ loops'[l].pc = "reinstall" /\ ~RunCalledBy(l)
            /\ Len(pkgs) = 0 => worker'.queue = worker.queue \/ RunCalledBy(l)
       /\ (loops[l].pc = "reinstall" /\ l <= Len(loops') /\ loops'[l].pc = "reinstall") =>
            /\ \A k \in 1..Len(worker'.queue) : worker'.queue[k].type # "RUN"
            /\ (HeadIs("INSTALL") /\ worker'.queue = Tail(worker.queue)
                /\ fullOutputRef' = Append(fullOutputRef, Line("> Installation complete."))) =>
                 installedPackagesRef' = SeqToSet(pkgs)]_vars

\* INSTALLED has been handled after a restart: the installed set is the
\* dependency list of the snapshot and the call is about to go on
C18_Witness ==
  \E l \in 1..Len(loops) :
    /\ loops[l].pc = "reinstall" /\ loops[l].cls \in {"Timeout", "Runtime Error"}
    /\ Len(loops[l].pkgs) > 0 /\ installedPackagesRef = SeqToSet(loops[l].pkgs)
    /\ jobs # <<>> /\ Head(jobs).l = l

C20_ReferenceMerge ==
  \A r \in MergeResults, w \in MergeWaves :
    LET out == updateLeaderboard(leaderboard, r, w)
        named == { k \in 1..Len(leaderboard) : leaderboard[k].name = r.name }
    IN /\ named = {} =>
            /\ Len(out) = Len(leaderboard) + 1
            /\ \A j \in 1..Len(leaderboard) : out[j] = leaderboard[j]
            /\ out[Len(out)] = [name |-> r.name, score |-> r.score, batches |-> r.batches,
                                time |-> r.time, verified |-> r.verified, error |-> r.error,
                                completedWaves |-> (IF r.verified THEN 1 ELSE 0),
                                lastVerifiedWave |-> w]
       /\ \A k \in named :
            (leaderboard[k].lastVerifiedWave # w /\ \A j \in named : k <= j) =>
              LET old == leaderboard[k] IN
              /\ Len(out) = Len(leaderboard)
              /\ \A j \in 1..Len(leaderboard) : j # k => out[j] = leaderboard[j]
              /\ out[k] = [name |-> old.name, score |-> old.score + r.score,
                           batches |-> old.batches + r.batches, time |-> old.time + r.time,
                           verified |-> (old.verified /\ r.verified),
                           error |-> (IF r.error = NoError THEN old.error ELSE r.error),
                           completedWaves |-> (IF r.verified THEN old.completedWaves + 1
                                               ELSE old.completedWaves),
                           lastVerifiedWave |-> w]

\* an entry that a verified result of one round and a failed result of the
\* next were folded into, beside the entry of another name
C20_Witness ==
  /\ Len(leaderboard) = 2
  /\ \E i \in 1..Len(leaderboard) :
       /\ leaderboard[i].completedWaves = 1 /\ leaderboard[i].lastVerifiedWave = 1
       /\ ~leaderboard[i].verified /\ leaderboard[i].error # NoError
       /\ leaderboard[i].score > 0

\* C21: as long as an entry exists, its cumulative score, batches and time
\* and its completedWaves never decrease across a step, whatever values the
\* result line of the sandbox output carries.
C21_CumulativeMonotone ==
  [][\A k \in 1..Len(leaderboard) :
       FindIndex(leaderboard', leaderboard[k].name) > 0 =>
         LET old == leaderboard[k]
             new == EntryOf(leaderboard', leaderboard[k].name)
         IN /\ new.score >= old.score
            /\ new.batches >= old.batches
            /\ new.time >= old.time
            /\ new.completedWaves >= old.completedWaves]_vars

\* C22: in every reachable state the leaderboard holds at most one entry per
\* name: neither the placeholder pushed before a run nor updateLeaderboard
\* makes a second entry of a name that is present.
C22_OneEntryPerName ==
  \A i, j \in 1..Len(leaderboard) :
    leaderboard[i].name = leaderboard[j].name => i = j

\* two proposals have entries, and in the second round a run was merged
\* into the entry the first round made
C22_Witness ==
  /\ Len(leaderboard) = 2 /\ wave = 1
  /\ \E i \in 1..Len(leaderboard) : leaderboard[i].lastVerifiedWave = 1

\* C23: no step of the sequencer or of the aggregator (merge, placeholder,
\* skip, restart, later round) removes an entry with verified = false or
\* makes it verified again.
C23_FailureKept ==
  [][\A k \in 1..Len(leaderboard) :
       ~leaderboard[k].verified =>
         /\ FindIndex(leaderboard', leaderboard[k].name) > 0
         /\ ~EntryOf(leaderboard', leaderboard[k].name).verified]_vars

\* an entry that failed in the first round is still there, unverified,
\* while the second round runs
C23_Witness ==
  /\ wave = 1
  /\ \E k \in 1..Len(leaderboard) :
       ~leaderboard[k].verified /\ leaderboard[k].lastVerifiedWave = 0
  /\ \E l \in 1..Len(loops) : loops[l].pc = "race" /\ loops[l].currentWaveSeed = 1

\* C24: removing a proposal leaves every leaderboard entry as it is, the
\* entry of the removed proposal too, and the calls in flight keep their
\* snapshot; a round whose snapshot is taken after the removal holds only
\* proposals of the list as it then is, so it does not run the removed one.
C24_RemoveKeepsHistory ==
  [][/\ proposals' # proposals =>
          /\ leaderboard' = leaderboard
          /\ loops' = loops /\ worker' = worker
     /\ \A l \in 1..Len(loops') :
          /\ StartedBy(l) =>
               loops'[l].activeProposals = SelectSeq(proposals', LAMBDA p : p.active)
          /\ RunCalledBy(l) =>
               /\ loops'[l].i \in 1..Len(loops'[l].activeProposals)
               /\ ~StartedBy(l) => loops'[l].activeProposals = loops[l].activeProposals]_vars

\* the second round runs without the proposal removed after the first,
\* whose entry is still on the leaderboard
C24_Witness ==
  /\ Len(proposals) = 1 /\ Len(leaderboard) = 2
  /\ \E l \in 1..Len(loops) :
       /\ loops[l].pc = "race" /\ loops[l].currentWaveSeed = 1
       /\ Len(loops[l].activeProposals) = 1
       /\ \E k \in 1..Len(leaderboard) :
            /\ leaderboard[k].name # loops[l].activeProposals[1].name
            /\ leaderboard[k].completedWaves = 1

\* the step posts an INSTALL request
InstallPosted ==
  /\ Len(worker'.queue) = Len(worker.queue) + 1
  /\ worker'.queue[Len(worker'.queue)].type = "INSTALL"

\* C25: within one session a package the worker reported as installed is in
\* no later INSTALL request: a request is posted only while the session is
\* ready, and it holds names that are not in the installed set, at least one;
\* the installed set holds what INSTALLED reported since the session began.
\* A call that posts no request leaves no promise pending: it resolves at
\* once.
C25_InstallDeduplicated ==
  [][/\ InstallPosted =>
          LET msg == worker'.queue[Len(worker'.queue)] IN
          /\ isReady /\ workerRef = LiveWorker
          /\ Len(msg.packages) > 0
          /\ SeqToSet(msg.packages) \cap installedPackagesRef = {}
     /\ IF HeadIs("INSTALL")
             /\ fullOutputRef' = Append(fullOutputRef, Line("> Installation complete."))
        THEN installedPackagesRef' =
               installedPackagesRef \cup SeqToSet(Head(worker.queue).packages)
        ELSE \/ installedPackagesRef' = installedPackagesRef
             \/ installedPackagesRef' = {} /\ worker' = FreshWorker
     /\ (worker' = FreshWorker /\ budget' # budget) => installedPackagesRef' = {}
     /\ (budget' # budget /\ ~InstallPosted /\ worker' = worker) =>
          /\ installResolveRef' = installResolveRef
          /\ isInstalling' = isInstalling
          /\ fullOutputRef' = fullOutputRef]_vars

\* numpy is installed in this session and a request for pandas alone is
\* with the worker
C25_Witness ==
  /\ installedPackagesRef = {"numpy"} /\ isReady
  /\ HeadIs("INSTALL") /\ Head(worker.queue).packages = << "pandas" >>

\* the worker answers the INSTALL request at the head of its queue
AnswersInstall ==
  /\ HeadIs("INSTALL") /\ worker.alive /\ worker.pyodide
  /\ worker'.alive /\ worker'.pyodide /\ worker'.queue = Tail(worker.queue)

\* the index of the first proposal after index i of the snapshot of call l
\* that the for loop does not skip; 0 if there is none
NextEligible(l, i) ==
  LET L == loops[l]
      eligible == { k \in (i+1)..Len(L.activeProposals) :
                      LET e == FindIndex(L.cLeaderboard, L.activeProposals[k].name)
                      IN e = 0 \/ L.cLeaderboard[e].verified }
  IN IF eligible = {} THEN 0 ELSE CHOOSE k \in eligible : \A j \in eligible : k <= j

InstallFailed ==
  fullOutputRef # <<>>
  /\ fullOutputRef[Len(fullOutputRef)] = Line("[ERROR] Package installation failed")

\* C26: when the worker answers an INSTALL request with INSTALL_ERROR, the
\* error line is appended to the output, the set of installed packages is
\* left as it was, the install promise of the requesting call is resolved
\* (its resolver slot is cleared and the call becomes runnable), and the
\* call, once resumed, goes on with the proposals of its round: it runs the
\* next proposal of its snapshot that is not disqualified.
C26_InstallErrorContinues ==
  [][/\ (AnswersInstall
          /\ fullOutputRef' # Append(fullOutputRef, Line("> Installation complete."))) =>
            LET l == Head(worker.queue).l IN
            /\ fullOutputRef' = Append(fullOutputRef, Line("[ERROR] Package installation failed"))
            /\ installedPackagesRef' = installedPackagesRef
            /\ ~isInstalling'
            /\ installResolveRef' = NoResolver
            /\ (l \in 1..Len(loops) /\ loops[l].pc \in {"install", "reinstall"}) =>
                  jobs' = << [l |-> l, v |-> TRUE] >>
     /\ (jobs # <<>> /\ InstallFailed /\ isPlayingRef
          /\ loops[Head(jobs).l].pc \in {"install", "reinstall"}) =>
            LET l == Head(jobs).l
                k == NextEligible(l, loops[l].i)
            IN k > 0 =>
                 /\ loops'[l].pc = "race" /\ loops'[l].i = k
                 /\ (workerRef = LiveWorker) =>
                       /\ worker'.queue = Append(worker.queue,
                             [type |-> "RUN", packages |-> <<>>,
                              files |-> FilesToRun(loops[l].activeProposals[k], loops[l].currentWaveSeed,
                                                loops[l].cTimeoutSecs),
                              l |-> l])]_vars

\* the call resumed after a failed installation has sent the RUN request of
\* its first proposal
C26_Witness ==
  /\ \E k \in 1..Len(fullOutputRef) :
        fullOutputRef[k] = Line("[ERROR] Package installation failed")
  /\ installedPackagesRef = {}
  /\ HeadIs("RUN")
  /\ loops[Head(worker.queue).l].pc = "race"

\* an initialized worker ends the RUN request at the head of its queue
RunAnswered ==
  /\ HeadIs("RUN") /\ worker.alive /\ worker.pyodide
  /\ worker'.alive /\ worker'.pyodide /\ worker'.queue = Tail(worker.queue)

Diagnostics ==
  { Line("--- PYTHON ERROR ---"), Line("Error: pytest not found."), Line("No entrypoint found") }

\* the step appends a diagnostic as the last line of the output
DiagnosticAppended ==
  /\ Len(fullOutputRef') > Len(fullOutputRef)
  /\ fullOutputRef'[Len(fullOutputRef')] \in Diagnostics

\* C27: an initialized worker that ends a RUN request posts exactly one DONE,
\* and DONE is posted in no other step; success is true only if the files
\* were written, an entry point was found and no diagnostic was output; a
\* diagnostic is followed by DONE with success false; a failed write is
\* answered by the PYTHON ERROR diagnostic and DONE with success false.
C27_OneDonePerRun ==
  [][/\ RunAnswered =>
          LET files == Head(worker.queue).files IN
          /\ Len(worker'.done) = 1
          /\ ~isExecuting' /\ runResolveRef' = NoResolver
          /\ worker'.done[1] =>
                Written(files) /\ EntryPoint(files) # "none" /\ ~DiagnosticAppended
          /\ DiagnosticAppended => ~worker'.done[1]
          /\ ~Written(files) =>
                /\ fullOutputRef' = Append(fullOutputRef, Line("--- PYTHON ERROR ---"))
                /\ worker'.done = << FALSE >>
     /\ (worker'.done # worker.done /\ worker'.done # <<>>) => RunAnswered]_vars

\* main.py has thrown: the diagnostic follows its entry line, DONE carries
\* success false
C27_Witness ==
  /\ worker.done = << FALSE >>
  /\ Len(fullOutputRef) >= 2
  /\ fullOutputRef[Len(fullOutputRef)] = Line("--- PYTHON ERROR ---")
  /\ fullOutputRef[Len(fullOutputRef) - 1] = Line("> Running main.py")

\* the lines of text after its last "> Executing code..." line: the output
\* of the last RUN request
RECURSIVE LastRun(_)
LastRun(text) ==
  IF text = <<>> \/ text[Len(text)] = Line("> Executing code...") THEN <<>>
  ELSE Append(LastRun(SubSeq(text, 1, Len(text) - 1)), text[Len(text)])

\* the entry point policy, for the file list files of the request ended by
\* the step: the first file named test_* is announced as the test run;
\* without one, main.py is announced; without both, the output is the
\* 'No entrypoint found' message and DONE carries success false
PolicyFollowed(files) ==
  LET tests == { k \in 1..Len(files) : IsTestFile(files[k].name) }
      hasMain == \E k \in 1..Len(files) : files[k].name = "main.py"
      out == LastRun(fullOutputRef')
  IN /\ tests # {} =>
          LET first == CHOOSE k \in tests : \A j \in tests : k <= j IN
          /\ out # <<>>
          /\ out[1] = Line("> Running tests in " \o files[first].name)
     /\ (tests = {} /\ hasMain) =>
          /\ out # <<>>
          /\ out[1] = Line("> Running main.py")
     /\ (tests = {} /\ ~hasMain) =>
          /\ out = << Line("No entrypoint found") >>
          /\ worker'.done = << FALSE >>

\* C28 (as stated): for every file list of a RUN request an initialized
\* worker ends, the entry point policy is followed.
C28_EntryPointPolicy ==
  [][RunAnswered => PolicyFollowed(Head(worker.queue).files)]_vars

\* C28 (amended): the entry point policy is followed for every file list
\* whose files are all written; if a write throws, no entry point is
\* announced: the output of the run is the PYTHON ERROR diagnostic and DONE
\* carries success false.
C28_EntryPointPolicyWritten ==
  [][RunAnswered =>
       LET files == Head(worker.queue).files IN
       IF Written(files) THEN PolicyFollowed(files)
       ELSE /\ LastRun(fullOutputRef') = << Line("--- PYTHON ERROR ---") >>
            /\ worker'.done = << FALSE >>]_vars

\* a test file has been run although its list holds main.py or another test
\* file before or after it
C28_Witness ==
  /\ worker.done # <<>>
  /\ LastRun(fullOutputRef) # <<>>
  /\ LastRun(fullOutputRef)[1] = Line("> Running tests in test_b.py")

\* the worker instances alive
LiveWorkers == worker.orphans + (IF worker.alive THEN 1 ELSE 0)

\* the step calls initPyodide: it registers the resolver of a new ready
\* promise (line 164)
InitCalled == readyResolveRef' # readyResolveRef /\ readyResolveRef' # NoResolver

\* C29: at most one worker instance is alive, and the worker alive is the one
\* workerRef holds; a step that calls initPyodide leaves one worker, newly
\* created with INIT posted and nothing else, the installed set empty, the
\* output buffer empty and no run resolver registered.
C29_BlankSession ==
  [][/\ LiveWorkers' <= 1
     /\ worker'.alive => workerRef' = LiveWorker
     /\ InitCalled =>
          /\ worker' = FreshWorker /\ workerRef' = LiveWorker
          /\ installedPackagesRef' = {}
          /\ fullOutputRef' = <<>>
          /\ runResolveRef' = NoResolver
          /\ ~isReady' /\ isLoading']_vars

\* the session in which the packages of the round were installed and a run
\* timed out has been replaced by a blank one, whose READY is awaited
C29_Witness ==
  \E l \in 1..Len(loops) :
    /\ loops[l].pc = "ready" /\ loops[l].cls = "Timeout" /\ Len(loops[l].pkgs) > 0
    /\ worker = FreshWorker /\ workerRef = LiveWorker
    /\ installedPackagesRef = {} /\ fullOutputRef = <<>> /\ runResolveRef = NoResolver

\* the worker of the session has answered INIT with ERROR: the line the
\* handler appends is in the buffer, which every initPyodide call empties
InitFailed == \E k \in 1..Len(fullOutputRef) : fullOutputRef[k] = Line("[SYSTEM ERROR]")

\* the step ends the initialization of the worker without READY and without
\* an error event of the worker
InitErrorAnswered ==
  /\ worker.alive /\ worker.init = "loading"
  /\ worker'.alive /\ worker'.init = "error"
  /\ fullOutputRef' # Append(fullOutputRef, Line("[WORKER FATAL ERROR] Terminated."))

\* C30: when the worker answers INIT with ERROR the error line is appended,
\* isLoading is cleared, the session is not ready and the ready promise is
\* not resolved (its resolver stays registered, no call becomes runnable);
\* from then on, as long as initPyodide is not called again, the session
\* stays not ready, no request is posted to the worker, no call waiting for
\* READY is resumed and no round starts.  While a session is not ready no
\* request is posted and no round starts.
C30_InitErrorIsFatal ==
  [][/\ InitErrorAnswered =>
          /\ fullOutputRef' = Append(fullOutputRef, Line("[SYSTEM ERROR]"))
          /\ ~isLoading' /\ ~isReady'
          /\ readyResolveRef' = readyResolveRef
          /\ jobs' = jobs
     /\ (InitFailed /\ ~InitCalled) =>
          /\ InitFailed' /\ ~isReady' /\ ~isLoading'
          /\ readyResolveRef' = readyResolveRef
          /\ Len(worker'.queue) <= Len(worker.queue)
          /\ \A l \in 1..Len(loops') : ~StartedBy(l)
          /\ \A l \in 1..Len(loops) :
               loops[l].pc = "ready" => l <= Len(loops') /\ loops'[l].pc = "ready"
     /\ ~isReady =>
          /\ Len(worker'.queue) <= Len(worker.queue)
          /\ \A l \in 1..Len(loops') : ~StartedBy(l)]_vars

\* the restart after a failed run was answered with ERROR: the call that
\* waits for READY stays suspended, play on
C30_Witness ==
  /\ InitFailed /\ isPlaying /\ ~isReady /\ ~isLoading
  /\ \E l \in 1..Len(loops) : loops[l].pc = "ready" /\ readyResolveRef = l

\* the RUN requests the worker has not yet answered
PendingRuns(w) == { k \in 1..Len(w.queue) : w.queue[k].type = "RUN" }

\* C31: the loser of the race is discarded.  When the timer has won, the
\* classification step ends with no run resolver registered and with a new
\* worker, so that no request of the old session is answered any more.  A
\* RUN request is pending only for the call that awaits its race, whose
\* resolver is the one registered, and its DONE resumes that call with its
\* success flag.  When the race is left its timer is cleared: a timer is set
\* only for the proposal whose race is awaited, and it fires only while
\* that race is not settled.
C31_RaceLoserDiscarded ==
  [][/\ \A l \in 1..Len(loops) :
          (ClassifiedBy(l) /\ loops[l].timedOut) =>
            /\ runResolveRef' = NoResolver
            /\ worker' = FreshWorker
            /\ PendingRuns(worker') = {}
     /\ Cardinality(PendingRuns(worker')) <= 1
     /\ \A k \in PendingRuns(worker') :
          LET l == worker'.queue[k].l IN
          /\ l \in 1..Len(loops') /\ loops'[l].pc = "race"
          /\ runResolveRef' = l
     /\ RunAnswered =>
          LET l == Head(worker.queue).l IN
          /\ ~loops[l].timedOut
          /\ jobs' = << [l |-> l, v |-> worker'.done[1]] >>
     /\ \A l \in 1..Len(loops') :
          /\ loops'[l].timers \subseteq {loops'[l].i}
          /\ loops'[l].timers # {} => loops'[l].pc = "race"
     /\ \A l \in 1..Len(loops) :
          (l <= Len(loops') /\ loops'[l].timedOut /\ ~loops[l].timedOut) =>
            /\ loops[l].pc = "race" /\ jobs = <<>>
            /\ loops[l].timers = {loops[l].i}]_vars

\* the run has won its race and the round is complete: DONE carried success,
\* the run was classified and no timer is left
C31_Witness ==
  \E l \in 1..Len(loops) :
    /\ loops[l].pc = "cooldown" /\ loops[l].cls = "ok" /\ loops[l].timers = {}
    /\ worker.done = << TRUE >> /\ runResolveRef = NoResolver

\* the step ends the handling of the failed run of call l: the
\* classification of a clean run without a result, or the continuation after
\* the recovery (restart, and reinstall if there are dependencies) of a
\* Timeout or Runtime Error
FailureHandledBy(l) ==
  /\ jobs # <<>> /\ Head(jobs).l = l
  /\ \/ loops[l].pc = "race" /\ Classification(l) = "Output Parsing Failed"
     \/ /\ loops[l].pc = "ready" /\ Len(loops[l].pkgs) = 0
        /\ loops[l].cls \in {"Timeout", "Runtime Error"}
     \/ loops[l].pc = "reinstall" /\ loops[l].cls \in {"Timeout", "Runtime Error"}

\* the failure whose handling the step ends
HandledFailure(l) ==
  IF loops[l].pc = "race" THEN "Output Parsing Failed" ELSE loops[l].cls

\* the lines that report a failure in the output: a line tagged with the
\* failure text, or the diagnostic of the worker for a Runtime Error
FailureLines(err) ==
  { Line(err) } \cup
  (IF err = "Runtime Error"
   THEN { Line("--- PYTHON ERROR ---"), Line("No entrypoint found") } ELSE {})

\* C32: once a failed run is handled (classification and recovery done),
\* the output buffer holds a line that reports the failure and the entry of
\* the proposal carries the failure text in its error field.
C32_FailureReported ==
  [][\A l \in 1..Len(loops) :
       FailureHandledBy(l) =>
         /\ \E k \in 1..Len(fullOutputRef') :
              fullOutputRef'[k] \in FailureLines(HandledFailure(l))
         /\ FindIndex(leaderboard', Executing(l)) > 0
         /\ EntryOf(leaderboard', Executing(l)).error = HandledFailure(l)]_vars

\* the step resumes call l and takes it to the check of line 888 or, the
\* proposals being exhausted, to the check of line 1037
ReachesCheck(l) ==
  /\ jobs # <<>> /\ Head(jobs).l = l
  /\ loops[l].pc \in {"install", "race", "ready", "reinstall"}
  /\ l <= Len(loops') => loops'[l].pc \notin {"ready", "reinstall"}

\* C33: when call l comes to its check with play off, it sends no RUN
\* request and returns: the round counter is as it was, isWaveRunning is
\* false and the status is IDLE.  If the step is the end of a run that was
\* in flight when play was switched off, the result of that run is merged
\* by this step as it is for any clean run.
C33_PauseStopsRound ==
  [][\A l \in 1..Len(loops) :
       (ReachesCheck(l) /\ ~isPlayingRef) =>
         /\ Returned(l)
         /\ PendingRuns(worker') = PendingRuns(worker)
         /\ wave' = wave
         /\ ~isWaveRunning' /\ status' = "IDLE"
         /\ (loops[l].pc = "race" /\ Classification(l) \in {"ok", "Output Parsing Failed"}) =>
              leaderboard' = ParseRunOutput(leaderboard, RunOutput(State, l), Executing(l),
                                            loops[l].currentWaveSeed)
         /\ loops[l].pc # "race" => leaderboard' = leaderboard]_vars

\* the round was paused during the run of its first proposal: that run was
\* merged, the second proposal was not started, the round counter is 0
C33_Witness ==
  /\ loops = <<>> /\ ~isPlaying /\ ~isWaveRunning /\ status = "IDLE" /\ wave = 0
  /\ Len(SelectSeq(proposals, LAMBDA p : p.active)) = 2
  /\ Len(leaderboard) = 1 /\ leaderboard[1].lastVerifiedWave = 0
  /\ leaderboard[1].name = SelectSeq(proposals, LAMBDA p : p.active)[1].name

\* the step takes call l, play on, into its for loop: at its start (no
\* dependencies to install) or resumed at an await
LoopStep(l) ==
  /\ isPlayingRef
  /\ \/ StartedBy(l) /\ loops'[l].pc # "install"
     \/ l <= Len(loops) /\ ReachesCheck(l)

\* the snapshot of call l, the index the step goes on from, and the index
\* of the proposal it stops at (one past the last if it leaves the loop)
Snapshot(l) == IF StartedBy(l) THEN loops'[l] ELSE loops[l]
LoopFrom(l) == IF StartedBy(l) \/ loops[l].pc = "install" THEN 0 ELSE loops[l].i
LoopTo(l) ==
  IF RunCalledBy(l) THEN loops'[l].i ELSE Len(Snapshot(l).activeProposals) + 1

\* the proposal at index k of the snapshot L is disqualified in it
Disqualified(L, k) ==
  LET e == FindIndex(L.cLeaderboard, L.activeProposals[k].name)
  IN e > 0 /\ ~L.cLeaderboard[e].verified

\* C34: the proposals a step of the for loop passes over are exactly the
\* disqualified ones before the next proposal that is not, and passing over
\* them changes nothing: the leaderboard is what the merge of the run just
\* ended and the placeholder of the proposal the loop stops at make it, the
\* only request posted is the RUN of the proposal the loop stops at, the only
\* timer set is that proposal's, and the session is not restarted.
C34_SkipChangesNothing ==
  [][\A l \in 1..Len(loops') :
       LoopStep(l) =>
         LET L == Snapshot(l)
             from == LoopFrom(l)
             to == LoopTo(l)
             merged == IF ~StartedBy(l) /\ loops[l].pc = "race"
                       THEN ParseRunOutput(leaderboard, RunOutput(State, l), Executing(l),
                                           L.currentWaveSeed)
                       ELSE leaderboard
         IN /\ \A k \in (from + 1)..(to - 1) : Disqualified(L, k)
            /\ to <= Len(L.activeProposals) => ~Disqualified(L, to)
            /\ leaderboard' = IF to <= Len(L.activeProposals)
                               THEN insertPlaceholder(merged, L.activeProposals[to].name)
                               ELSE merged
            /\ worker'.queue =
                 IF to <= Len(L.activeProposals)
                 THEN Append(worker.queue,
                             [type |-> "RUN", packages |-> <<>>,
                              files |-> FilesToRun(L.activeProposals[to], L.currentWaveSeed,
                                                L.cTimeoutSecs),
                              l |-> l])
                 ELSE worker.queue
            /\ loops'[l].timers \subseteq {to}
            /\ worker'.init = worker.init /\ workerRef' = workerRef
            /\ installedPackagesRef' = installedPackagesRef
            /\ IsPrefix(fullOutputRef, fullOutputRef')]_vars

\* the second round has passed over the disqualified first proposal and runs
\* the second one; the entry of the first is as the round found it
C34_Witness ==
  \E l \in 1..Len(loops) :
    /\ loops[l].pc = "race" /\ loops[l].i = 2 /\ loops[l].currentWaveSeed = 1
    /\ Disqualified(loops[l], 1)
    /\ loops[l].cls = "none"
    /\ EntryOf(leaderboard, loops[l].activeProposals[1].name)
         = EntryOf(loops[l].cLeaderboard, loops[l].activeProposals[1].name)

\* call l is suspended before the step and has not returned after it
Suspended(l) ==
  /\ l <= Len(loops) /\ loops[l].pc # "done"
  /\ l <= Len(loops') /\ loops'[l].pc # "done"

\* the inputs a call takes at its start and keeps to its return
Inputs(L) ==
  << L.activeProposals, L.currentWaveSeed, L.pkgs, L.cTimeoutSecs >>

\* the leaderboard entries the step adds or changes
Touched ==
  { k \in 1..Len(leaderboard') : k > Len(leaderboard) \/ leaderboard'[k] # leaderboard[k] }

C36_ExecutedOncePerRound ==
  [][\A l \in 1..Len(loops') :
       (RunCalledBy(l) /\ loops'[l].sent) =>
         LET L == loops'[l]
             e == FindIndex(leaderboard, L.activeProposals[L.i].name)
         IN e = 0 \/ leaderboard[e].lastVerifiedWave # L.currentWaveSeed]_vars

\* C37: the run of a proposal changes only the entry named after that
\* proposal, whatever lines the run printed: when a call classifies the run
\* of proposal P, every entry the step changes or adds is the entry of P,
\* but for the placeholder of the proposal the call goes on to.
C37_OwnEntryOnly ==
  [][\A l \in 1..Len(loops) :
       ClassifiedBy(l) =>
         \A k \in Touched :
           \/ leaderboard'[k].name = Executing(l)
           \/ k > Len(leaderboard) /\ leaderboard'[k].lastVerifiedWave = -1]_vars

\* the step is handleStop while the run of call l is in flight
StoppedMidRun(l) ==
  /\ loops[l].pc = "race" /\ runResolveRef = l /\ isExecuting /\ workerRef # NullWorker
  /\ workerRef' = NullWorker /\ ~isPlaying'
  /\ fullOutputRef' = Append(fullOutputRef, Line("[SYSTEM] Execution stopped."))

C39_ResetIsFinal ==
  [][\A l \in 1..Len(loops) :
       (loops[l].reset /\ jobs # <<>> /\ Head(jobs).l = l) =>
         /\ leaderboard' = leaderboard
         /\ wave' = wave]_vars

\* the step is the continuation of call l after its cooldown
CooledDown(l) ==
  /\ jobs # <<>> /\ Head(jobs).l = l
  /\ l <= Len(loops) /\ loops[l].pc = "cooldown"

\* C40: when the cooldown of a call ends, the round counter is incremented
\* by one and the call returns without a request to the worker, whether play
\* is on or was switched off during the cooldown; and a call starts only in
\* a step taken with play on, so after a pause in the cooldown no round
\* starts until play is switched on.
C40_PausedCooldown ==
  [][/\ \A l \in 1..Len(loops) :
          CooledDown(l) =>
            /\ wave' = wave + 1
            /\ l > Len(loops') \/ loops'[l].pc = "done"
            /\ ~isWaveRunning'
            /\ worker' = worker /\ leaderboard' = leaderboard
     /\ \A l \in 1..Len(loops') : StartedBy(l) => isPlaying /\ isPlayingRef]_vars

\* play was switched off during the cooldown of round 0: the counter is 1,
\* no call is suspended, nothing is left to run, and no run of round 1 was
\* started
C40_Witness ==
  /\ ~isPlaying /\ ~isPlayingRef /\ wave = 1
  /\ loops = <<>> /\ Quiet /\ ~isWaveRunning /\ isReady
  /\ worker.queue = <<>>
  /\ leaderboard # <<>>
  /\ \A k \in 1..Len(leaderboard) : leaderboard[k].lastVerifiedWave = 0


====
